---- MODULE Spec2Model ----
(***************************************************************************)
(* Model of the serial configuration tool esp32_controller.py              *)
(* (class HandControllerConfig): the connection session, the reader        *)
(* thread, the response (consumer) thread, the command handlers of the     *)
(* interaction (Tk main) thread and the firmware flash worker thread.      *)
(*                                                                         *)
(* Text is a sequence of symbols.  A symbol is a one-character string or   *)
(* a word that the program only ever treats as a unit (a label, a number). *)
(* Floats are fixed-point integers in hundredths (1.25 is 125); ints are   *)
(* integers.  Threads interleave between statements that touch shared      *)
(* state; every thread has a program counter.                              *)
(***************************************************************************)
EXTENDS Integers, Sequences, FiniteSets, TLC

(***************************************************************************)
(* Bounds of the model.                                                    *)
(***************************************************************************)
MaxConnects == 2      \* successful serial.Serial() opens in one run
MaxLines == 2         \* lines the device emits in one run
MaxSends == 1         \* command handlers the user triggers in one run
MaxFlashJobs == 2     \* flash requests the user confirms in one run
MaxFlashLines == 2    \* output lines of one esptool run

(***************************************************************************)
(* Text helpers (Python str operations on symbol sequences).               *)
(***************************************************************************)
None == <<"<None>">>

Whitespace == {" ", "\t", "\r", "\n"}

\* pat in s
Contains(pat, s) ==
    \E i \in 1..(Len(s) - Len(pat) + 1) : SubSeq(s, i, i + Len(pat) - 1) = pat

\* s.find(pat) + 1, 0 when absent
Find(pat, s) ==
    IF Contains(pat, s)
    THEN CHOOSE i \in 1..(Len(s) - Len(pat) + 1) :
            /\ SubSeq(s, i, i + Len(pat) - 1) = pat
            /\ \A j \in 1..(i - 1) : SubSeq(s, j, j + Len(pat) - 1) # pat
    ELSE 0

StartsWith(pat, s) == Len(s) >= Len(pat) /\ SubSeq(s, 1, Len(pat)) = pat

RECURSIVE LStrip(_)
LStrip(s) == IF s # <<>> /\ Head(s) \in Whitespace THEN LStrip(Tail(s)) ELSE s

RECURSIVE RStrip(_)
RStrip(s) ==
    IF s # <<>> /\ s[Len(s)] \in Whitespace THEN RStrip(SubSeq(s, 1, Len(s) - 1)) ELSE s

\* s.strip()
Strip(s) == RStrip(LStrip(s))

\* s.split(pat): the list of pieces
RECURSIVE Split(_, _)
Split(s, pat) ==
    LET i == Find(pat, s) IN
    IF i = 0 THEN <<s>>
    ELSE <<SubSeq(s, 1, i - 1)>> \o Split(SubSeq(s, i + Len(pat), Len(s)), pat)

\* "\n".join(pieces)
RECURSIVE Join(_)
Join(pieces) ==
    IF pieces = <<>> THEN <<>>
    ELSE IF Len(pieces) = 1 THEN pieces[1]
    ELSE pieces[1] \o <<"\n">> \o Join(Tail(pieces))

\* str(float): value in hundredths to its shortest decimal text, "10.0", "1.25"
FmtFloat(h) ==
    LET a == IF h < 0 THEN -h ELSE h
        whole == a \div 100
        frac == a % 100
        fs == IF frac % 10 = 0 THEN ToString(frac \div 10)
              ELSE IF frac < 10 THEN "0" \o ToString(frac)
              ELSE ToString(frac)
    IN (IF h < 0 THEN "-" ELSE "") \o ToString(whole) \o "." \o fs

\* str(int)
FmtInt(n) == ToString(n)

\* Numbers that occur as text in the inputs of the model.
IntVals == {0, 1, 14, 15, 33, 110, 115, 255, 256}
FloatVals == {0, 5, 50, 80, 125, 200, 1000, 4800, 10000}

\* a lenient int(text): 0 where the text is no number
ParseIntOrZero(s) ==
    LET t == Strip(s) IN
    IF Len(t) = 1 /\ \E n \in IntVals : FmtInt(n) = t[1]
    THEN <<TRUE, CHOOSE n \in IntVals : FmtInt(n) = t[1]>>
    ELSE <<TRUE, 0>>

\* int(text): <<TRUE, n>> or <<FALSE, 0>> (ValueError)
ParseInt(s) ==
    LET t == Strip(s) IN
    IF Len(t) = 1 /\ \E n \in IntVals : FmtInt(n) = t[1]
    THEN <<TRUE, CHOOSE n \in IntVals : FmtInt(n) = t[1]>>
    ELSE <<FALSE, 0>>

\* float(text), in hundredths: <<TRUE, h>> or <<FALSE, 0>> (ValueError)
ParseFloat(s) ==
    LET t == Strip(s) IN
    IF Len(t) = 1 /\ \E h \in FloatVals : FmtFloat(h) = t[1]
    THEN <<TRUE, CHOOSE h \in FloatVals : FmtFloat(h) = t[1]>>
    ELSE IF Len(t) = 1 /\ \E n \in IntVals : FmtInt(n) = t[1]
    THEN <<TRUE, 100 * (CHOOSE n \in IntVals : FmtInt(n) = t[1])>>
    ELSE <<FALSE, 0>>

(***************************************************************************)
(* The config mirror (self.config) and the response processor.             *)
(***************************************************************************)
InitConfig ==
    [invert_throttle |-> FALSE, level_assistant |-> FALSE, speed_unit_mph |-> FALSE,
     motor_pulley |-> 15, wheel_pulley |-> 33, wheel_diameter_mm |-> 115,
     motor_poles |-> 14, ble_connected |-> FALSE, firmware_version |-> <<"Unknown">>,
     pid_kp |-> 80, pid_ki |-> 50, pid_kd |-> 5, pid_output_max |-> 4800]

Digits == {"0", "1", "2", "3", "4", "5", "6", "7", "8", "9"}
UpperChars == {"A", "B", "C", "D", "E", "F", "G", "H", "I", "J", "K", "L", "M",
               "N", "O", "P", "Q", "R", "S", "T", "U", "V", "W", "X", "Y", "Z"}
LowerChars == {"a", "b", "c", "d", "e", "f", "g", "h", "i", "j", "k", "l", "m",
               "n", "o", "p", "q", "r", "s", "t", "u", "v", "w", "x", "y", "z"}
\* the character classes of the ANSI pattern: [0-?], [ -/], [@-~], [@-Z\\-_]
\* (the backquote of [@-~] cannot be written as a string here and is in no input)
ParamChars == Digits \cup {":", ";", "<", "=", ">", "?"}
InterChars == {" ", "!", "\"", "#", "$", "%", "&", "'", "(", ")", "*", "+", ",", "-", ".", "/"}
FinalChars == {"@", "[", "\\", "]", "^", "_", "{", "|", "}", "~"} \cup UpperChars \cup LowerChars
FeChars == {"@", "\\", "]", "^", "_"} \cup UpperChars

\* number of leading symbols of s in class cls (a greedy cls*)
RECURSIVE Run(_, _)
Run(s, cls) == IF s # <<>> /\ Head(s) \in cls THEN 1 + Run(Tail(s), cls) ELSE 0

\* length of the ANSI sequence that starts s, 0 when none does:
\* \x1B(?:[@-Z\\-_]|\[[0-?]*[ -/]*[@-~])
AnsiMatch(s) ==
    IF Len(s) < 2 \/ s[1] # "ESC" THEN 0
    ELSE IF s[2] \in FeChars THEN 2
    ELSE IF s[2] = "["
    THEN LET rest == SubSeq(s, 3, Len(s))
             p == Run(rest, ParamChars)
             q == Run(SubSeq(rest, p + 1, Len(rest)), InterChars)
         IN IF p + q < Len(rest) /\ rest[p + q + 1] \in FinalChars THEN 2 + p + q + 1 ELSE 0
    ELSE 0

\* ansi_escape.sub(empty, response): leftmost matches removed, one pass
RECURSIVE StripAnsi(_)
StripAnsi(s) ==
    IF s = <<>> THEN <<>>
    ELSE LET n == AnsiMatch(s) IN
         IF n > 0 THEN StripAnsi(SubSeq(s, n + 1, Len(s)))
         ELSE <<Head(s)>> \o StripAnsi(Tail(s))

\* ansi_escape.search(s): an ANSI sequence starts somewhere in s
HasAnsi(s) == \E i \in 1..Len(s) : AnsiMatch(SubSeq(s, i, Len(s))) > 0

SkipPatterns ==
    { <<"I", " ", "(">>,
      <<"USB_SERIAL", ":", " ", "Processing command", ":">>,
      <<"USB_SERIAL", ":", " ", "Parsed command type", ":">>,
      <<"USB_SERIAL", ":", " ", "Motor pulley teeth", " ", "set to", ":">>,
      <<"USB_SERIAL", ":", " ", "Wheel pulley teeth", " ", "set to", ":">>,
      <<"USB_SERIAL", ":", " ", "Wheel diameter", " ", "set to", ":">>,
      <<"USB_SERIAL", ":", " ", "Motor poles", " ", "set to", ":">>,
      <<"USB_SERIAL", ":", " ", "Throttle inversion", ":">>,
      <<"USB_SERIAL", ":", " ", "Level assistant", ":">>,
      <<"USB_SERIAL", ":", " ", "Odometer reset">>,
      <<"USB_SERIAL", ":", " ", "Configuration", ":">>,
      <<"USB_SERIAL", ":", " ", "Available commands", ":">>,
      <<"USB_SERIAL", ":", " ", "Unknown command", ":">> }

\* the loop body of clean_response: the stripped line, or <<>> when it is skipped
KeepLine(raw) ==
    LET line == Strip(raw) IN
    IF line = <<>> THEN <<>>
    ELSE IF \E pat \in SkipPatterns : Contains(pat, line) THEN <<>>
    ELSE IF line = <<">">> THEN <<>>
    ELSE line

RECURSIVE FilterLines(_)
FilterLines(lines) ==
    IF lines = <<>> THEN <<>>
    ELSE LET k == KeepLine(Head(lines)) IN
         (IF k = <<>> THEN <<>> ELSE <<k>>) \o FilterLines(Tail(lines))

clean_response(response) ==
    LET filtered == FilterLines(Split(StripAnsi(response), <<"\n">>)) IN
    IF filtered # <<>> THEN Join(filtered) ELSE None

\* The text log_message(message) inserts into response_text (without the
\* final newline): a one-element list, or the empty list when it inserts nothing.
HelpCommandNames ==
    {"invert_throttle", "level_assistant", "reset_odometer", "set_motor_pulley",
     "set_wheel_pulley", "set_wheel_size", "set_motor_poles", "get_config"}

\* log_message with a prefix in the default branch
log_message_info(message) ==
    LET Has(pat) == Contains(pat, message)
        status == IF Has(<<"ENABLED">>) THEN "enabled" ELSE "disabled"
    IN
    IF StartsWith(<<"Sent", ":">>, message) THEN << <<"  ">> \o message >>
    ELSE IF Has(<<"set to", ":">>) THEN << <<"[OK] ">> \o message >>
    ELSE IF Has(<<"Throttle inversion", ":">>)
    THEN << <<"[OK] ", "Throttle inversion", ":", " ", status>> >>
    ELSE IF Has(<<"Level assistant", ":">>)
    THEN << <<"[OK] ", "Level assistant", ":", " ", status>> >>
    ELSE IF Has(<<"Odometer reset", " ", "successfully">>) THEN << <<"[OK] ">> \o message >>
    ELSE IF Has(<<"Odometer reset">>) THEN << <<"[OK] ">> \o message >>
    ELSE IF Has(<<"Unknown command", ":">>) THEN << <<"[ERROR] ">> \o message >>
    ELSE IF Has(<<"=== Hand Controller Commands ===">>) THEN << message >>
    ELSE IF Has(<<"help">>) /\ Has(<<"Show this help message">>) THEN << >>
    ELSE IF \E cmd \in HelpCommandNames : Has(<<cmd>>) THEN << <<"  ">> \o message >>
    ELSE IF Has(<<"calibrate_throttle">>) /\ Has(<<"Manually calibrate throttle range">>)
    THEN << <<"  ">> \o message >>
    ELSE IF Has(<<"get_calibration">>) /\ Has(<<"Show throttle calibration status">>)
    THEN << <<"  ">> \o message >>
    ELSE IF Has(<<"Calibration progress", ":">>) THEN << <<"[PROGRESS] ">> \o message >>
    ELSE IF Has(<<"Calibration complete!">>) THEN << <<"[OK] ">> \o message >>
    ELSE IF Has(<<"Calibration failed">>) THEN << <<"[ERROR] ">> \o message >>
    ELSE IF Has(<<"Raw range", ":">>) \/ Has(<<"Calibrated range", ":">>)
    THEN << <<"  ">> \o message >>
    ELSE IF Has(<<"Calibration Status", ":">>) THEN << <<"[STATUS] ">> \o message >>
    ELSE IF Has(<<"Current ADC Reading", ":">>) \/ Has(<<"Current Mapped Value", ":">>)
    THEN << <<"  ">> \o message >>
    ELSE IF Has(<<"Throttle signals were set to neutral during calibration">>)
    THEN << <<"[SAFETY] ">> \o message >>
    ELSE IF Has(<<"Calibrated Min Value", ":">>) \/ Has(<<"Calibrated Max Value", ":">>)
            \/ Has(<<"Calibrated Range", ":">>)
    THEN << <<"  ">> \o message >>
    ELSE << <<"[INFO] ">> \o message >>


log_message(message) ==
    LET Has(pat) == Contains(pat, message)
        status == IF Has(<<"ENABLED">>) THEN "enabled" ELSE "disabled"
    IN
    IF StartsWith(<<"Sent", ":">>, message) THEN << <<"  ">> \o message >>
    ELSE IF Has(<<"set to", ":">>) THEN << <<"[OK] ">> \o message >>
    ELSE IF Has(<<"Throttle inversion", ":">>)
    THEN << <<"[OK] ", "Throttle inversion", ":", " ", status>> >>
    ELSE IF Has(<<"Level assistant", ":">>)
    THEN << <<"[OK] ", "Level assistant", ":", " ", status>> >>
    ELSE IF Has(<<"Odometer reset", " ", "successfully">>) THEN << <<"[OK] ">> \o message >>
    ELSE IF Has(<<"Odometer reset">>) THEN << <<"[OK] ">> \o message >>
    ELSE IF Has(<<"Unknown command", ":">>) THEN << <<"[ERROR] ">> \o message >>
    ELSE IF Has(<<"=== Hand Controller Commands ===">>) THEN << message >>
    ELSE IF Has(<<"help">>) /\ Has(<<"Show this help message">>) THEN << >>
    ELSE IF \E cmd \in HelpCommandNames : Has(<<cmd>>) THEN << <<"  ">> \o message >>
    ELSE IF Has(<<"calibrate_throttle">>) /\ Has(<<"Manually calibrate throttle range">>)
    THEN << <<"  ">> \o message >>
    ELSE IF Has(<<"get_calibration">>) /\ Has(<<"Show throttle calibration status">>)
    THEN << <<"  ">> \o message >>
    ELSE IF Has(<<"Calibration progress", ":">>) THEN << <<"[PROGRESS] ">> \o message >>
    ELSE IF Has(<<"Calibration complete!">>) THEN << <<"[OK] ">> \o message >>
    ELSE IF Has(<<"Calibration failed">>) THEN << <<"[ERROR] ">> \o message >>
    ELSE IF Has(<<"Raw range", ":">>) \/ Has(<<"Calibrated range", ":">>)
    THEN << <<"  ">> \o message >>
    ELSE IF Has(<<"Calibration Status", ":">>) THEN << <<"[STATUS] ">> \o message >>
    ELSE IF Has(<<"Current ADC Reading", ":">>) \/ Has(<<"Current Mapped Value", ":">>)
    THEN << <<"  ">> \o message >>
    ELSE IF Has(<<"Throttle signals were set to neutral during calibration">>)
    THEN << <<"[SAFETY] ">> \o message >>
    ELSE IF Has(<<"Calibrated Min Value", ":">>) \/ Has(<<"Calibrated Max Value", ":">>)
            \/ Has(<<"Calibrated Range", ":">>)
    THEN << <<"  ">> \o message >>
    ELSE << message >>

\* the category prefixes log_message writes before a line
CategoryPrefixes == {"[OK] ", "[ERROR] ", "[PROGRESS] ", "[STATUS] ", "[SAFETY] "}

\* str.lower() of one symbol: the words of the inputs that have upper-case letters
LowerSym(t) ==
    CASE t = "ENABLED" -> "enabled"
      [] t = "Enabled" -> "enabled"
      [] t = "DISABLED" -> "disabled"
      [] t = "Yes" -> "yes"
      [] t = "YES" -> "yes"
      [] t = "No" -> "no"
      [] t = "True" -> "true"
      [] t = "Connected" -> "connected"
      [] t = "Motor Poles" -> "motor poles"
      [] t = "MOTOR POLES" -> "motor poles"
      [] OTHER -> t

Lower(s) == [i \in 1..Len(s) |-> LowerSym(s[i])]

\* text.split()[0] if ' ' in text else text
FirstWord(value) ==
    IF Contains(<<" ">>, value)
    THEN LET t == LStrip(value) IN SubSeq(t, 1, Run(t, {x \in {t[i] : i \in 1..Len(t)} : x \notin Whitespace}))
    ELSE value

\* one iteration of the loop of parse_config_display
ParseDisplayLine(c, line) ==
    IF ~Contains(<<":">>, line) THEN c
    ELSE
    LET i == Find(<<":">>, line)
        key == Strip(SubSeq(line, 1, i - 1))
        value == Strip(SubSeq(line, i + 1, Len(line)))
        yes(words) == Len(Lower(value)) = 1 /\ Lower(value)[1] \in words
        int == ParseInt(value)
        dia == ParseInt(FirstWord(value))
    IN
    IF key \in {<<"Firmware Version">>, <<"Firmware version">>}
    THEN [c EXCEPT !.firmware_version = value]
    ELSE IF key \in {<<"Throttle Inverted">>, <<"Throttle inversion">>}
    THEN [c EXCEPT !.invert_throttle = yes({"yes", "enabled", "true"})]
    ELSE IF key \in {<<"Level Assistant">>, <<"Level assistant">>}
    THEN [c EXCEPT !.level_assistant = yes({"yes", "enabled", "true"})]
    ELSE IF key \in {<<"Speed Unit">>, <<"Speed unit">>}
    THEN [c EXCEPT !.speed_unit_mph = yes({"mi/h", "true"})]
    ELSE IF key \in {<<"Motor Pulley Teeth">>, <<"Motor pulley teeth">>}
    THEN IF int[1] THEN [c EXCEPT !.motor_pulley = int[2]] ELSE c
    ELSE IF key \in {<<"Wheel Pulley Teeth">>, <<"Wheel pulley teeth">>}
    THEN IF int[1] THEN [c EXCEPT !.wheel_pulley = int[2]] ELSE c
    ELSE IF key \in {<<"Wheel Diameter">>, <<"Wheel diameter">>}
    THEN IF dia[1] THEN [c EXCEPT !.wheel_diameter_mm = dia[2]] ELSE c
    ELSE IF key \in {<<"Motor Poles">>, <<"Motor poles">>}
    THEN IF int[1] THEN [c EXCEPT !.motor_poles = int[2]] ELSE c
    ELSE IF key \in {<<"BLE Connected">>, <<"BLE connected">>}
    THEN [c EXCEPT !.ble_connected = yes({"yes", "connected", "true"})]
    ELSE c

RECURSIVE DisplayLines(_, _)
DisplayLines(c, lines) ==
    IF lines = <<>> THEN c ELSE DisplayLines(ParseDisplayLine(c, Head(lines)), Tail(lines))

parse_config_display(c, response) == DisplayLines(c, Split(response, <<"\n">>))

\* one iteration of the loop over the lines of the PID parameter block
ParsePidLine(c, line) ==
    LET val == ParseFloat(Split(line, <<":">>)[2]) IN
    IF Contains(<<"Kp (Proportional)", ":">>, line)
    THEN IF val[1] THEN [c EXCEPT !.pid_kp = val[2]] ELSE c
    ELSE IF Contains(<<"Ki (Integral)", ":">>, line)
    THEN IF val[1] THEN [c EXCEPT !.pid_ki = val[2]] ELSE c
    ELSE IF Contains(<<"Kd (Derivative)", ":">>, line)
    THEN IF val[1] THEN [c EXCEPT !.pid_kd = val[2]] ELSE c
    ELSE IF Contains(<<"Output Max", ":">>, line)
    THEN IF val[1] THEN [c EXCEPT !.pid_output_max = val[2]] ELSE c
    ELSE c

RECURSIVE PidLines(_, _)
PidLines(c, lines) ==
    IF lines = <<>> THEN c ELSE PidLines(ParsePidLine(c, Head(lines)), Tail(lines))

DisplayKeywords ==
    { <<"Throttle Inverted", ":">>, <<"Motor Pulley Teeth", ":">>, <<"Wheel Pulley Teeth", ":">>,
      <<"Wheel Diameter", ":">>, <<"Motor Poles", ":">>, <<"BLE Connected", ":">>,
      <<"Firmware Version", ":">> }

\* parse_config_response with ENABLED flipping the field
parse_config_response_toggle(c, response) ==
    LET Has(pat) == Contains(pat, response)
        After(pat) == Split(response, pat)[2]
        SetF(cc, pat, field) ==
            IF Has(pat)
            THEN LET v == ParseFloat(After(pat)) IN
                 IF v[1] THEN [cc EXCEPT ![field] = v[2]] ELSE cc
            ELSE cc
        SetI(cc, pat, field) ==
            IF Has(pat)
            THEN LET v == ParseInt(After(pat)) IN
                 IF v[1] THEN [cc EXCEPT ![field] = v[2]] ELSE cc
            ELSE cc
        c1 == IF Has(<<"Throttle inversion", ":", " ", "ENABLED">>)
              THEN [c EXCEPT !.invert_throttle = ~c.invert_throttle]
              ELSE IF Has(<<"Throttle inversion", ":", " ", "DISABLED">>)
              THEN [c EXCEPT !.invert_throttle = FALSE]
              ELSE c
        c2 == IF Has(<<"Level assistant", ":", " ", "ENABLED">>)
              THEN [c1 EXCEPT !.level_assistant = ~c1.level_assistant]
              ELSE IF Has(<<"Level assistant", ":", " ", "DISABLED">>)
              THEN [c1 EXCEPT !.level_assistant = FALSE]
              ELSE c1
        c3 == IF Has(<<"Speed Unit", ":">>)
              THEN [c2 EXCEPT !.speed_unit_mph = Has(<<"mi/h">>)]
              ELSE c2
        c4 == SetF(c3, <<"PID Kp", " ", "set to", ":">>, "pid_kp")
        c5 == SetF(c4, <<"PID Ki", " ", "set to", ":">>, "pid_ki")
        c6 == SetF(c5, <<"PID Kd", " ", "set to", ":">>, "pid_kd")
        c7 == SetF(c6, <<"PID Output Max", " ", "set to", ":">>, "pid_output_max")
        c8 == IF Has(<<"=== Level Assistant PID Parameters ===">>)
              THEN PidLines(c7, Split(response, <<"\n">>))
              ELSE c7
        c9 == SetI(c8, <<"Motor pulley teeth", " ", "set to", ":">>, "motor_pulley")
        c10 == SetI(c9, <<"Wheel pulley teeth", " ", "set to", ":">>, "wheel_pulley")
        c11 == IF Has(<<"Wheel diameter", " ", "set to", ":">>)
               THEN LET v == ParseInt(Split(After(<<"Wheel diameter", " ", "set to", ":">>), <<"mm">>)[1]) IN
                    IF v[1] THEN [c10 EXCEPT !.wheel_diameter_mm = v[2]] ELSE c10
               ELSE c10
        c12 == SetI(c11, <<"Motor poles", " ", "set to", ":">>, "motor_poles")
        c13 == IF Has(<<"Firmware version", ":">>) \/ Has(<<"Firmware Version", ":">>)
               THEN [c12 EXCEPT !.firmware_version = Strip(Split(response, <<":">>)[2])]
               ELSE c12
    IN
    IF Has(<<"Current", " ", "Configuration">>) \/ Has(<<"Configuration", ":">>)
    THEN parse_config_display(c13, response)
    ELSE IF \E kw \in DisplayKeywords : Has(kw)
    THEN parse_config_display(c13, response)
    ELSE c13

\* the mirror after parse_config_response(response) on mirror c
parse_config_response(c, response) ==
    LET Has(pat) == Contains(pat, response)
        After(pat) == Split(response, pat)[2]
        SetF(cc, pat, field) ==
            IF Has(pat)
            THEN LET v == ParseFloat(After(pat)) IN
                 IF v[1] THEN [cc EXCEPT ![field] = v[2]] ELSE cc
            ELSE cc
        SetI(cc, pat, field) ==
            IF Has(pat)
            THEN LET v == ParseInt(After(pat)) IN
                 IF v[1] THEN [cc EXCEPT ![field] = v[2]] ELSE cc
            ELSE cc
        c1 == IF Has(<<"Throttle inversion", ":", " ", "ENABLED">>)
              THEN [c EXCEPT !.invert_throttle = TRUE]
              ELSE IF Has(<<"Throttle inversion", ":", " ", "DISABLED">>)
              THEN [c EXCEPT !.invert_throttle = FALSE]
              ELSE c
        c2 == IF Has(<<"Level assistant", ":", " ", "ENABLED">>)
              THEN [c1 EXCEPT !.level_assistant = TRUE]
              ELSE IF Has(<<"Level assistant", ":", " ", "DISABLED">>)
              THEN [c1 EXCEPT !.level_assistant = FALSE]
              ELSE c1
        c3 == IF Has(<<"Speed Unit", ":">>)
              THEN [c2 EXCEPT !.speed_unit_mph = Has(<<"mi/h">>)]
              ELSE c2
        c4 == SetF(c3, <<"PID Kp", " ", "set to", ":">>, "pid_kp")
        c5 == SetF(c4, <<"PID Ki", " ", "set to", ":">>, "pid_ki")
        c6 == SetF(c5, <<"PID Kd", " ", "set to", ":">>, "pid_kd")
        c7 == SetF(c6, <<"PID Output Max", " ", "set to", ":">>, "pid_output_max")
        c8 == IF Has(<<"=== Level Assistant PID Parameters ===">>)
              THEN PidLines(c7, Split(response, <<"\n">>))
              ELSE c7
        c9 == SetI(c8, <<"Motor pulley teeth", " ", "set to", ":">>, "motor_pulley")
        c10 == SetI(c9, <<"Wheel pulley teeth", " ", "set to", ":">>, "wheel_pulley")
        c11 == IF Has(<<"Wheel diameter", " ", "set to", ":">>)
               THEN LET v == ParseInt(Split(After(<<"Wheel diameter", " ", "set to", ":">>), <<"mm">>)[1]) IN
                    IF v[1] THEN [c10 EXCEPT !.wheel_diameter_mm = v[2]] ELSE c10
               ELSE c10
        c12 == SetI(c11, <<"Motor poles", " ", "set to", ":">>, "motor_poles")
        c13 == IF Has(<<"Firmware version", ":">>) \/ Has(<<"Firmware Version", ":">>)
               THEN [c12 EXCEPT !.firmware_version = Strip(Split(response, <<":">>)[2])]
               ELSE c12
    IN
    IF Has(<<"Current", " ", "Configuration">>) \/ Has(<<"Configuration", ":">>)
    THEN parse_config_display(c13, response)
    ELSE IF \E kw \in DisplayKeywords : Has(kw)
    THEN parse_config_display(c13, response)
    ELSE c13

(***************************************************************************)
(* Program state.                                                          *)
(***************************************************************************)
Handles == 1..MaxConnects      \* the serial.Serial objects, in order of creation
FlashIds == 1..MaxFlashJobs    \* the flash worker threads, in order of creation

VARIABLES
    serial_port,      \* self.serial_port: 0 (None) or a handle
    is_connected,     \* self.is_connected
    port_state,       \* per handle: "unopened", "open", "closed", "failed"
    rx,               \* lines the device has sent that wait in the port's input buffer
    response_queue,   \* self.response_queue
    config,           \* self.config, the mirror
    response_text,    \* the log sink (self.response_text): per thread, the entries it inserted
    wire,             \* what serial_port.write() has transmitted, in order
    dialog,           \* title of the last messagebox shown, "" when none
    ui,               \* the interaction (Tk main) thread: pc and locals
    reader,           \* per handle, the read_serial thread connect() started for it
    consumer,         \* the process_responses thread
    flash,            \* per flash job, the flash_firmware_worker thread
    nLines,           \* lines the device has emitted so far
    nSends,           \* command handlers that reached send_serial_command so far
    returned,         \* handles closed by a disconnect() call that has returned
    host,             \* the machine the program runs on: the flashing tools and SDK
                      \* directories installed, IDF_PATH, temporary directories made
    idf_path,         \* self.idf_path_var
    firmware_path,    \* self.firmware_path_var
    updater,          \* update-check threads started and not yet run
    pack              \* one run of pack_firmware.py: its arguments and surroundings, its
                      \* position, the zip file, the requests it made, its exit code

vars == <<serial_port, is_connected, port_state, rx, response_queue, config,
          response_text, wire, dialog, ui, reader, consumer, flash,
          nLines, nSends, returned, host, idf_path, firmware_path, updater, pack>>

\* the state of the flash tab and of the update check
tools == <<host, idf_path, firmware_path, updater, pack>>

NoLine == [id |-> 0, sess |-> 0, by |-> 0, text |-> <<>>]

\* a log entry: the inserted text, and for an entry of an inbound line the
\* line's number, the session it was read in and the reader that read it
Entry(text, l) == [text |-> text, id |-> l.id, sess |-> l.sess, by |-> l.by]

Entries(texts, l) == [i \in 1..Len(texts) |-> Entry(texts[i], l)]

\* The widget's content is kept per inserting thread: the widget holds an
\* interleaving of these lists, and the order between the entries of different
\* threads is left open.
FlashThread(j) == "flash" \o ToString(j)

LogThreads == {"ui", "consumer", "updater"} \cup {FlashThread(j) : j \in FlashIds}

\* self.log_message(message) from a thread that handles no inbound line
Logged(message) == Entries(log_message(message), NoLine)

\* self.response_text.insert(tk.END, text)
Inserted(text) == <<Entry(text, NoLine)>>

\* response_text after thread t has inserted the entries
Log(t, entries) == [response_text EXCEPT ![t] = @ \o entries]

\* what detect_esp_idf_path sees of the machine: whether `esptool --help`
\* and `python -m esptool --help` run with exit code 0; of an SDK directory
\* whether it is absent, a directory without export.sh ("dir") or one with it
\* ("sdk"): the first two conventional paths and the directory IDF_PATH names
\* ("unset" when the variable is not set)
Hosts ==
    [esptool_on_path : BOOLEAN, esptool_module : BOOLEAN,
     home_sdk : {"absent", "dir", "sdk"}, opt_sdk : {"absent", "dir", "sdk"},
     env_sdk : {"unset", "absent", "dir", "sdk"}, tmpdirs : {0}]

\* the machine of the other scenarios: no flashing tool, the SDK in the home
\* directory
DefaultHost ==
    [esptool_on_path |-> FALSE, esptool_module |-> FALSE, home_sdk |-> "sdk",
     opt_sdk |-> "absent", env_sdk |-> "unset", tmpdirs |-> 0]

\* detect_esp_idf_path(): the first of the standalone tool, the module, a
\* conventional directory with export.sh, the directory of IDF_PATH; or empty
detect_esp_idf_path(h) ==
    IF h.esptool_on_path THEN "esptool"
    ELSE IF h.esptool_module THEN "pip_esptool"
    ELSE IF h.home_sdk = "sdk" THEN "~/esp/esp-idf"
    ELSE IF h.opt_sdk = "sdk" THEN "/opt/esp/esp-idf"
    ELSE IF h.env_sdk \in {"dir", "sdk"} THEN "$IDF_PATH"
    ELSE ""

\* pack_firmware.py, main: the three firmware files the package is made of
source_files == {"bootloader.bin", "partition-table.bin", "gb_controller_lite.bin"}

\* One run of pack_firmware.py: the command line (--github; --repo, given as
\* its parts between slashes, <<>> when absent; --token), and what the run
\* finds: a token in the environment, the build directory, the firmware files
\* that exist, whether read_version() returns a version, whether
\* get_github_repo() finds a GitHub remote, whether requests was imported.
PackRuns ==
    { r \in [github : BOOLEAN, repo : {<<>>, <<"owner", "repo">>, <<"owner">>},
             token_arg : BOOLEAN, token_env : BOOLEAN, build : BOOLEAN,
             files : SUBSET source_files, version : BOOLEAN, remote : BOOLEAN,
             library : BOOLEAN] :
        ~r.build => r.files = {} }

\* the packaging script has not been started: no zip file in Downloads, no
\* request made, no exit code (-1)
NoRun ==
    [pc |-> "unstarted",
     run |-> [github |-> FALSE, repo |-> <<>>, token_arg |-> FALSE, token_env |-> FALSE,
              build |-> FALSE, files |-> {}, version |-> FALSE, remote |-> FALSE,
              library |-> FALSE],
     zip |-> "none", requests |-> <<>>, code |-> -1]

\* the state after construction, but for the machine and the ESP-IDF path
InitProgram ==
    /\ serial_port = 0
    /\ is_connected = FALSE
    /\ port_state = [h \in Handles |-> "unopened"]
    /\ rx = <<>>
    /\ response_queue = <<>>
    /\ config = InitConfig
    /\ response_text = [t \in LogThreads |-> <<>>]
    /\ wire = <<>>
    /\ dialog = ""
    /\ ui = [pc |-> "idle", cmd |-> <<>>, h |-> 0, fromDisc |-> FALSE, assets |-> <<>>]
    /\ reader = [h \in Handles |-> [pc |-> "unstarted", line |-> NoLine, late |-> 0, lateRead |-> FALSE]]
    /\ consumer = [pc |-> "get", cur |-> NoLine]
    /\ flash = [j \in FlashIds |-> [pc |-> "unstarted", idf |-> "", h |-> 0, alone |-> TRUE,
                                    fromDisc |-> FALSE, proc |-> "none", pipe |-> <<>>,
                                    out |-> 0, rc |-> 0, count |-> 0]]
    /\ nLines = 0
    /\ nSends = 0
    /\ returned = {}
    /\ firmware_path = <<>>
    /\ updater = 0
    /\ pack = NoRun

Init ==
    /\ InitProgram
    /\ host = DefaultHost
    /\ idf_path = detect_esp_idf_path(host)

\* construction before the flash tab is built, on any machine
InitDetect ==
    /\ InitProgram
    /\ host \in Hosts
    /\ idf_path = "<None>"

\* create_flash_tab: self.idf_path_var = tk.StringVar(value=self.detect_esp_idf_path())
DetectIdf ==
    /\ idf_path = "<None>"
    /\ idf_path' = detect_esp_idf_path(host)
    /\ UNCHANGED <<serial_port, is_connected, port_state, rx, response_queue, config,
                   response_text, wire, dialog, ui, reader, consumer, flash, nLines, nSends,
                   returned, host, firmware_path, updater, pack>>

(***************************************************************************)
(* connect() and disconnect().  The interaction thread runs them from      *)
(* toggle_connection; the flash worker thread runs disconnect() itself.    *)
(***************************************************************************)
Opened == {h \in Handles : port_state[h] # "unopened"}

\* a disconnect() that flips the flag instead of clearing it
disconnect_toggle(conn) == ~conn

\* the value disconnect() assigns to self.is_connected
disconnect_flag(conn) == FALSE

\* toggle_connection -> connect(): serial.Serial(port, 115200, timeout=1, write_timeout=1)
\* succeeds and is stored in self.serial_port
UIConnectOpen ==
    /\ ui.pc = "idle"
    /\ ~is_connected
    /\ Cardinality(Opened) < MaxConnects
    /\ LET h == Cardinality(Opened) + 1 IN
       /\ port_state' = [port_state EXCEPT ![h] = "open"]
       /\ serial_port' = h
       /\ ui' = [ui EXCEPT !.pc = "c_flag", !.h = h]
    /\ rx' = <<>>
    /\ dialog' = ""
    /\ flash' = [j \in FlashIds |->
                   IF flash[j].pc \in {"d_close", "d_none", "d_flag"}
                   THEN [flash[j] EXCEPT !.alone = FALSE] ELSE flash[j]]
    /\ UNCHANGED <<is_connected, response_queue, config, response_text, wire,
                   reader, consumer, nLines, nSends, returned>>
    /\ UNCHANGED tools

\* a connect() that sets the flag before it opens the port
UIConnectFailFlagged ==
    /\ ui.pc = "idle"
    /\ ~is_connected
    /\ is_connected' = TRUE
    /\ dialog' = "Connection Error"
    /\ UNCHANGED <<serial_port, port_state, rx, response_queue, config,
                   response_text, wire, ui, reader, consumer, flash, nLines, nSends, returned>>
    /\ UNCHANGED tools

\* toggle_connection -> connect(): serial.Serial raises, the except branch reports it
UIConnectFail ==
    /\ ui.pc = "idle"
    /\ ~is_connected
    /\ dialog' = "Connection Error"
    /\ UNCHANGED <<serial_port, is_connected, port_state, rx, response_queue, config,
                   response_text, wire, ui, reader, consumer, flash, nLines, nSends, returned>>
    /\ UNCHANGED tools

\* connect(): self.is_connected = True, the button and status label, the log entry
UIConnectFlag ==
    /\ ui.pc = "c_flag"
    /\ is_connected' = TRUE
    /\ response_text' = Log("ui", Logged(<<"Connected to ESP32 Hand Controller">>))
    /\ ui' = [ui EXCEPT !.pc = "c_start"]
    /\ UNCHANGED <<serial_port, port_state, rx, response_queue, config, wire, dialog,
                   reader, consumer, flash, nLines, nSends, returned>>
    /\ UNCHANGED tools

\* connect(): self.start_reading_thread()
UIConnectStart ==
    /\ ui.pc = "c_start"
    /\ reader' = [reader EXCEPT ![ui.h].pc = "test"]
    /\ ui' = [ui EXCEPT !.pc = "idle", !.h = 0]
    /\ UNCHANGED <<serial_port, is_connected, port_state, rx, response_queue, config,
                   response_text, wire, dialog, consumer, flash, nLines, nSends, returned>>
    /\ UNCHANGED tools

\* disconnect(): if self.serial_port: self.serial_port.close()  (an exception of
\* close() is caught and printed).  me is the caller's record; the result is the
\* caller's record after the step.
DiscClose(me) ==
    [me EXCEPT !.pc = IF serial_port # 0 THEN "d_none" ELSE "d_flag",
               !.h = serial_port,
               !.fromDisc = (serial_port = 0 /\ ~is_connected)]

ClosePort ==
    IF serial_port # 0
    THEN /\ port_state' = [port_state EXCEPT ![serial_port] = "closed"]
         /\ rx' = <<>>
    ELSE UNCHANGED <<port_state, rx>>

\* toggle_connection -> disconnect(), up to the close
UIDisconnectClose ==
    /\ ui.pc = "idle"
    /\ is_connected
    /\ ClosePort
    /\ ui' = DiscClose(ui)
    /\ dialog' = ""
    /\ UNCHANGED <<serial_port, is_connected, response_queue, config, response_text, wire,
                   reader, consumer, flash, nLines, nSends, returned>>
    /\ UNCHANGED tools

\* disconnect() that resets the mirror to its defaults
UIDisconnectNoneReset ==
    /\ ui.pc = "d_none"
    /\ serial_port' = 0
    /\ config' = InitConfig
    /\ ui' = [ui EXCEPT !.pc = "d_flag"]
    /\ UNCHANGED <<is_connected, port_state, rx, response_queue, response_text, wire,
                   dialog, reader, consumer, flash, nLines, nSends, returned>>
    /\ UNCHANGED tools

\* disconnect(): finally: self.serial_port = None
UIDisconnectNone ==
    /\ ui.pc = "d_none"
    /\ serial_port' = 0
    /\ ui' = [ui EXCEPT !.pc = "d_flag"]
    /\ UNCHANGED <<is_connected, port_state, rx, response_queue, config, response_text, wire,
                   dialog, reader, consumer, flash, nLines, nSends, returned>>
    /\ UNCHANGED tools

\* disconnect(): self.is_connected = False, the button and status label, the log
\* entry; the call returns
UIDisconnectFlag ==
    /\ ui.pc = "d_flag"
    /\ is_connected' = disconnect_flag(is_connected)
    /\ response_text' = Log("ui", Logged(<<"Disconnected from ESP32">>))
    /\ returned' = returned \cup ({ui.h} \ {0})
    /\ ui' = [ui EXCEPT !.pc = "idle", !.h = 0, !.fromDisc = FALSE]
    /\ UNCHANGED <<serial_port, port_state, rx, response_queue, config, wire, dialog,
                   reader, consumer, flash, nLines, nSends>>
    /\ UNCHANGED tools

(***************************************************************************)
(* The device and the transport.                                           *)
(***************************************************************************)
L_kp == <<"PID Kp", " ", "set to", ":", " ", "1.25">>
L_ready == <<"Ready">>
L_blank == <<" ">>
L_prompt == <<">">>

DeviceLines == {L_kp, L_ready, L_blank, L_prompt}

\* the device writes one line; it waits in the input buffer of the open port
DeviceEmit(text) ==
    /\ nLines < MaxLines
    /\ \E h \in Handles : port_state[h] = "open"
    /\ rx' = Append(rx, [id |-> nLines + 1, text |-> text])
    /\ nLines' = nLines + 1
    /\ UNCHANGED <<serial_port, is_connected, port_state, response_queue, config,
                   response_text, wire, dialog, ui, reader, consumer, flash, nSends, returned>>
    /\ UNCHANGED tools

\* the device writes a block of lines in one burst; they wait, in order, in
\* the input buffer of the open port
DeviceEmitBlock(lines) ==
    /\ nLines < MaxLines
    /\ \E h \in Handles : port_state[h] = "open"
    /\ rx' = rx \o [i \in 1..Len(lines) |-> [id |-> nLines + i, text |-> lines[i]]]
    /\ nLines' = nLines + Len(lines)
    /\ UNCHANGED <<serial_port, is_connected, port_state, response_queue, config,
                   response_text, wire, dialog, ui, reader, consumer, flash, nSends, returned>>
    /\ UNCHANGED tools

\* the transport breaks (the device is unplugged): every later call on the
\* handle raises OSError
PortFail(h) ==
    /\ port_state[h] = "open"
    /\ port_state' = [port_state EXCEPT ![h] = "failed"]
    /\ rx' = <<>>
    /\ UNCHANGED <<serial_port, is_connected, response_queue, config, response_text, wire,
                   dialog, ui, reader, consumer, flash, nLines, nSends, returned>>
    /\ UNCHANGED tools

(***************************************************************************)
(* start_reading_thread.read_serial: one thread per connect().             *)
(***************************************************************************)
InvalidBytes == {"\\xFF"}

\* bytes.decode('utf-8', errors='ignore')
Decode(bytes) == SelectSeq(bytes, LAMBDA b : b \notin InvalidBytes)

\* self.serial_port is a handle that is open: reads and writes on it work
Writable == IF serial_port = 0 THEN FALSE ELSE port_state[serial_port] = "open"

Live(r) == reader[r].pc \in {"test", "poll", "put"}

\* while self.is_connected and self.serial_port:  (false: the thread ends)
ReaderTest(r) ==
    /\ reader[r].pc = "test"
    /\ reader' = [reader EXCEPT ![r].pc = IF is_connected /\ serial_port # 0 THEN "poll" ELSE "exit",
                                ![r].late = IF is_connected /\ serial_port # 0 /\ r \in returned /\ @ < 2
                                            THEN @ + 1 ELSE @]
    /\ UNCHANGED <<serial_port, is_connected, port_state, rx, response_queue, config,
                   response_text, wire, dialog, ui, consumer, flash, nLines, nSends, returned>>
    /\ UNCHANGED tools

\* self.serial_port.in_waiting raises (self.serial_port is None, or the handle
\* is closed or broken): every except branch breaks out of the loop
ReaderError(r) ==
    /\ reader[r].pc = "poll"
    /\ ~Writable
    /\ reader' = [reader EXCEPT ![r].pc = "error"]
    /\ UNCHANGED <<serial_port, is_connected, port_state, rx, response_queue, config,
                   response_text, wire, dialog, ui, consumer, flash, nLines, nSends, returned>>
    /\ UNCHANGED tools

\* in_waiting is 0: time.sleep(0.01), next iteration
ReaderIdle(r) ==
    /\ reader[r].pc = "poll"
    /\ Writable
    /\ rx = <<>>
    /\ reader' = [reader EXCEPT ![r].pc = "test"]
    /\ UNCHANGED <<serial_port, is_connected, port_state, rx, response_queue, config,
                   response_text, wire, dialog, ui, consumer, flash, nLines, nSends, returned>>
    /\ UNCHANGED tools

\* line = self.serial_port.readline().decode('utf-8', errors='ignore').strip()
ReaderRead(r) ==
    /\ reader[r].pc = "poll"
    /\ Writable
    /\ rx # <<>>
    /\ LET line == Strip(Decode(Head(rx).text)) IN
       reader' = [reader EXCEPT
                    ![r].pc = IF line # <<>> THEN "put" ELSE "test",
                    ![r].line = IF line # <<>>
                                THEN [id |-> Head(rx).id, sess |-> serial_port, by |-> r, text |-> line]
                                ELSE NoLine,
                    ![r].lateRead = @ \/ r \in returned]
    /\ rx' = Tail(rx)
    /\ UNCHANGED <<serial_port, is_connected, port_state, response_queue, config,
                   response_text, wire, dialog, ui, consumer, flash, nLines, nSends, returned>>
    /\ UNCHANGED tools

\* the put into a queue.Queue(maxsize=1): it waits while a line is in the queue
ReaderPutBounded(r) ==
    /\ reader[r].pc = "put"
    /\ Len(response_queue) < 1
    /\ response_queue' = Append(response_queue, reader[r].line)
    /\ reader' = [reader EXCEPT ![r].pc = "test", ![r].line = NoLine]
    /\ UNCHANGED <<serial_port, is_connected, port_state, rx, config,
                   response_text, wire, dialog, ui, consumer, flash, nLines, nSends, returned>>
    /\ UNCHANGED tools

\* if line: self.response_queue.put(line); time.sleep(0.01)
ReaderPut(r) ==
    /\ reader[r].pc = "put"
    /\ response_queue' = Append(response_queue, reader[r].line)
    /\ reader' = [reader EXCEPT ![r].pc = "test", ![r].line = NoLine]
    /\ UNCHANGED <<serial_port, is_connected, port_state, rx, config,
                   response_text, wire, dialog, ui, consumer, flash, nLines, nSends, returned>>
    /\ UNCHANGED tools

(***************************************************************************)
(* start_response_thread.process_responses and process_response.           *)
(***************************************************************************)
\* response = self.response_queue.get(timeout=0.1)
ConsumerGet ==
    /\ consumer.pc = "get"
    /\ response_queue # <<>>
    /\ consumer' = [pc |-> "process", cur |-> Head(response_queue)]
    /\ response_queue' = Tail(response_queue)
    /\ UNCHANGED <<serial_port, is_connected, port_state, rx, config, response_text, wire,
                   dialog, ui, reader, flash, nLines, nSends, returned>>
    /\ UNCHANGED tools

\* process_response(response): clean, log, parse
ConsumerProcess ==
    /\ consumer.pc = "process"
    /\ LET cleaned == clean_response(consumer.cur.text) IN
       IF cleaned # None
       THEN /\ response_text' = Log("consumer", Entries(log_message(cleaned), consumer.cur))
            /\ config' = parse_config_response(config, cleaned)
       ELSE UNCHANGED <<response_text, config>>
    /\ consumer' = [pc |-> "get", cur |-> NoLine]
    /\ UNCHANGED <<serial_port, is_connected, port_state, rx, response_queue, wire,
                   dialog, ui, reader, flash, nLines, nSends, returned>>
    /\ UNCHANGED tools

\* process_response when a call of log_message on the widget raises: at
\* insert (inserted = FALSE) or at see (inserted = TRUE).  process_responses
\* catches queue.Empty only, so the error leaves the loop and the thread ends.
ConsumerRaise(inserted) ==
    /\ consumer.pc = "process"
    /\ clean_response(consumer.cur.text) # None
    /\ log_message(clean_response(consumer.cur.text)) # <<>>
    /\ response_text' =
         IF inserted
         THEN Log("consumer", Entries(log_message(clean_response(consumer.cur.text)),
                                      consumer.cur))
         ELSE response_text
    /\ consumer' = [pc |-> "dead", cur |-> NoLine]
    /\ UNCHANGED <<serial_port, is_connected, port_state, rx, response_queue, config, wire,
                   dialog, ui, reader, flash, nLines, nSends, returned>>
    /\ UNCHANGED tools

(***************************************************************************)
(* The command handlers of the interaction thread and send_serial_command. *)
(***************************************************************************)
SimpleCommands ==
    {"invert_throttle", "level_assistant", "toggle_speed_unit", "reset_odometer",
     "get_config", "help", "calibrate_throttle", "get_calibration", "get_pid_params",
     "get_firmware_version"}

IntSetters == {"set_motor_pulley", "set_wheel_pulley", "set_wheel_size", "set_motor_poles"}

FloatSetters == {"set_pid_kp", "set_pid_ki", "set_pid_kd", "set_pid_output_max"}

\* what the handler inserts into response_text before it sends
PreInsert(name) ==
    CASE name = "get_config" -> Inserted(<<"Requesting current configuration...">>)
      [] name = "calibrate_throttle" -> Inserted(<<"Starting throttle calibration...">>)
      [] name = "get_calibration" -> Inserted(<<"Requesting calibration status...">>)
      [] name = "get_pid_params" -> Inserted(<<"Requesting PID parameters...">>)
      [] name = "get_firmware_version" -> Inserted(<<"Checking firmware version...">>)
      [] OTHER -> <<>>

\* a range test that lets 0 through: not (v < 0 or v > 255)
int_in_range_from_zero(v) == ~(v < 0 \/ v > 255)

\* the range test of the four integer setters: not (v <= 0 or v > 255)
int_in_range(v) == ~(v <= 0 \/ v > 255)

\* the range tests of the four PID setters, in hundredths
pid_in_range(name, v) ==
    CASE name = "set_pid_kp" -> ~(v < 0 \/ v > 1000)
      [] name = "set_pid_ki" -> ~(v < 0 \/ v > 200)
      [] name = "set_pid_kd" -> ~(v < 0 \/ v > 100)
      [] name = "set_pid_output_max" -> ~(v < 1000 \/ v > 10000)

PidField(name) ==
    CASE name = "set_pid_kp" -> "pid_kp"
      [] name = "set_pid_ki" -> "pid_ki"
      [] name = "set_pid_kd" -> "pid_kd"
      [] name = "set_pid_output_max" -> "pid_output_max"

PidLabel(name) ==
    CASE name = "set_pid_kp" -> "Setting PID Kp to "
      [] name = "set_pid_ki" -> "Setting PID Ki to "
      [] name = "set_pid_kd" -> "Setting PID Kd to "
      [] name = "set_pid_output_max" -> "Setting PID Output Max to "

\* f"{command}\n".encode()
Encode(command) == command \o <<"\n">>

\* the mirror after a PID setter has accepted value v
pid_setter_config(c, name, v) == [c EXCEPT ![PidField(name)] = v]

\* a handler without argument: toggle_throttle, toggle_level_assistant,
\* toggle_speed_unit, reset_odometer, get_config, show_help, calibrate_throttle
\* (yes: the answer to its askyesno), get_calibration, get_pid_params,
\* check_firmware_update; up to the call of send_serial_command
UICommand(name, yes) ==
    /\ ui.pc = "idle"
    /\ IF ~is_connected
       THEN /\ dialog' = "Not Connected"
            /\ UNCHANGED <<response_text, ui, nSends>>
       ELSE IF name = "calibrate_throttle" /\ ~yes
       THEN /\ dialog' = ""
            /\ UNCHANGED <<response_text, ui, nSends>>
       ELSE /\ nSends < MaxSends
            /\ dialog' = ""
            /\ response_text' = Log("ui", PreInsert(name))
            /\ ui' = [ui EXCEPT !.pc = "send", !.cmd = <<name>>]
            /\ nSends' = nSends + 1
    /\ UNCHANGED <<serial_port, is_connected, port_state, rx, response_queue, config, wire,
                   reader, consumer, flash, nLines, returned>>
    /\ UNCHANGED tools

\* set_motor_pulley, set_wheel_pulley, set_wheel_size, set_motor_poles with the
\* entry holding the integer v; up to the call of send_serial_command
UISetInt(name, v) ==
    /\ ui.pc = "idle"
    /\ IF ~is_connected
       THEN /\ dialog' = "Not Connected"
            /\ UNCHANGED <<ui, nSends>>
       ELSE IF ~int_in_range(v)
       THEN /\ dialog' = "Invalid Value"
            /\ UNCHANGED <<ui, nSends>>
       ELSE /\ nSends < MaxSends
            /\ dialog' = ""
            /\ ui' = [ui EXCEPT !.pc = "send", !.cmd = <<name, " ", FmtInt(v)>>]
            /\ nSends' = nSends + 1
    /\ UNCHANGED <<serial_port, is_connected, port_state, rx, response_queue, config,
                   response_text, wire, reader, consumer, flash, nLines, returned>>
    /\ UNCHANGED tools

\* set_pid_kp, set_pid_ki, set_pid_kd, set_pid_output_max with the entry holding
\* the float v (in hundredths); up to the call of send_serial_command
UISetFloat(name, v) ==
    /\ ui.pc = "idle"
    /\ IF ~is_connected
       THEN /\ dialog' = "Not Connected"
            /\ UNCHANGED <<config, response_text, ui, nSends>>
       ELSE IF ~pid_in_range(name, v)
       THEN /\ dialog' = "Invalid Value"
            /\ UNCHANGED <<config, response_text, ui, nSends>>
       ELSE /\ nSends < MaxSends
            /\ dialog' = ""
            /\ config' = pid_setter_config(config, name, v)
            /\ response_text' = Log("ui", Inserted(<<PidLabel(name), FmtFloat(v), "...">>))
            /\ ui' = [ui EXCEPT !.pc = "send", !.cmd = <<name, " ", FmtFloat(v)>>]
            /\ nSends' = nSends + 1
    /\ UNCHANGED <<serial_port, is_connected, port_state, rx, response_queue, wire,
                   reader, consumer, flash, nLines, returned>>
    /\ UNCHANGED tools

\* the entry does not hold a number: IntVar.get()/DoubleVar.get() raises; the
\* PID setters show "Error", the integer setters let the exception escape
UISetUnreadable(name) ==
    /\ ui.pc = "idle"
    /\ is_connected
    /\ dialog' = IF name \in FloatSetters THEN "Error" ELSE "callback exception"
    /\ UNCHANGED <<serial_port, is_connected, port_state, rx, response_queue, config,
                   response_text, wire, ui, reader, consumer, flash, nLines, nSends, returned>>
    /\ UNCHANGED tools

\* send_serial_command: self.serial_port.write(f"{command}\n".encode()) succeeds,
\* then self.log_message(f"Sent: {command}")
UISendOk ==
    /\ ui.pc = "send"
    /\ Writable
    /\ wire' = Append(wire, Encode(ui.cmd))
    /\ response_text' = Log("ui", Logged(<<"Sent", ":", " ">> \o ui.cmd))
    /\ ui' = [ui EXCEPT !.pc = "idle", !.cmd = <<>>]
    /\ UNCHANGED <<serial_port, is_connected, port_state, rx, response_queue, config, dialog,
                   reader, consumer, flash, nLines, nSends, returned>>
    /\ updater' = IF ui.cmd = <<"get_firmware_version">> THEN updater + 1 ELSE updater
    /\ UNCHANGED <<host, idf_path, firmware_path, pack>>

\* (check_firmware_update then starts its update-check thread)
\* send_serial_command: write raises (self.serial_port is None, the handle is
\* closed or broken, or the write times out); the except branch reports it
UISendError ==
    /\ ui.pc = "send"
    /\ dialog' = "Send Error"
    /\ ui' = [ui EXCEPT !.pc = "idle", !.cmd = <<>>]
    /\ UNCHANGED <<serial_port, is_connected, port_state, rx, response_queue, config,
                   response_text, wire, reader, consumer, flash, nLines, nSends, returned>>
    /\ updater' = IF ui.cmd = <<"get_firmware_version">> THEN updater + 1 ELSE updater
    /\ UNCHANGED <<host, idf_path, firmware_path, pack>>

(***************************************************************************)
(* The update check (check_online_updates, in its own thread).             *)
(***************************************************************************)
\* s.lstrip('v')
RECURSIVE LStripV(_)
LStripV(s) == IF s # <<>> /\ Head(s) = "v" THEN LStripV(Tail(s)) ELSE s

\* version.parse(text) of the packaging library: <<TRUE, key>> or
\* <<FALSE, <<>>>> (InvalidVersion).  The key is the release number and 0 for a
\* pre-release, 1 for a final release; one leading "v" is allowed.
ParseVersion(s) ==
    LET t == IF s # <<>> /\ Head(s) = "v" THEN Tail(s) ELSE s IN
    IF Len(t) # 1 THEN <<FALSE, <<>>>>
    ELSE CASE t[1] = "1.2.0" -> <<TRUE, <<1, 2, 0, 1>>>>
           [] t[1] = "1.3.0-rc1" -> <<TRUE, <<1, 3, 0, 0>>>>
           [] t[1] = "1.3.0" -> <<TRUE, <<1, 3, 0, 1>>>>
           [] t[1] = "1.9.0" -> <<TRUE, <<1, 9, 0, 1>>>>
           [] t[1] = "1.10.0" -> <<TRUE, <<1, 10, 0, 1>>>>
           [] OTHER -> <<FALSE, <<>>>>

\* a comparison that takes equal versions for older
version_le(a, b) ==
    \/ a = b
    \/ \E i \in 1..4 : a[i] < b[i] /\ \A k \in 1..(i - 1) : a[k] = b[k]

\* Version.__lt__: the keys compared component by component
version_lt(a, b) == \E i \in 1..4 : a[i] < b[i] /\ \A k \in 1..(i - 1) : a[k] = b[k]

\* what the registry answers to the request for the latest release: the
\* request fails, the answer has no tag_name, or a release with tag and assets
ReleaseTags == {<<"v", "1.3.0">>, <<"1.9.0">>, <<"v", "1.10.0">>, <<"1.10.0">>, <<"v", "v", "1.9.0">>}
AssetLists ==
    {<<>>, <<"notes.txt", "fw.elf">>, <<"fw.elf", "fw.bin", "fw2.bin">>,
     <<"fw.bin.sig", "fw2.bin", "fw.bin">>}
RegistryReplies ==
    {[kind |-> "error", tag_name |-> <<>>, assets |-> <<>>],
     [kind |-> "no_tag", tag_name |-> <<>>, assets |-> <<>>]}
    \cup [kind : {"release"}, tag_name : ReleaseTags, assets : AssetLists]

\* names of the assets download_firmware_update lists: .bin, .elf, .zip
RECURSIVE FirmwareAssets(_)
FirmwareAssets(assets) ==
    IF assets = <<>> THEN <<>>
    ELSE (IF Head(assets) \in {"fw.bin", "fw2.bin", "fw.elf"} THEN <<Head(assets)>> ELSE <<>>)
         \o FirmwareAssets(Tail(assets))

\* download_firmware_update(version): what it inserts into the log
download_firmware_update(latest, reply) ==
    Inserted(<<"[INFO] Preparing to download firmware version ">> \o latest)
    \o IF reply.kind = "error"
       THEN Inserted(<<"[ERROR] Failed to get release information: ">>)
       ELSE Inserted(<<"[INFO] Release: ">>)
            \o Inserted(<<"[INFO] Available assets: ", ToString(Len(FirmwareAssets(reply.assets)))>>)
            \o [i \in 1..Len(FirmwareAssets(reply.assets)) |->
                   Entry(<<"  - ", FirmwareAssets(reply.assets)[i]>>, NoLine)]
            \o Inserted(<<"[INFO] Update information displayed for version ">> \o latest)

\* an update check that stores the latest release in the mirror
UpdateCheckStoresLatest(reply, yes, reply2) ==
    /\ updater > 0
    /\ updater' = updater - 1
    /\ response_text' = Log("updater", Inserted(<<"Checking for updates online...">>))
    /\ config' = [config EXCEPT !.firmware_version = LStripV(reply.tag_name)]
    /\ UNCHANGED <<serial_port, is_connected, port_state, rx, response_queue, wire, dialog,
                   ui, reader, consumer, flash, nLines, nSends, returned>>
    /\ UNCHANGED <<host, idf_path, firmware_path, pack>>

\* check_online_updates, run by a thread check_firmware_update started: reply
\* is the registry's answer, yes the user's answer to the offer, reply2 the
\* registry's answer to the request of download_firmware_update
UpdateCheck(reply, yes, reply2) ==
    /\ updater > 0
    /\ updater' = updater - 1
    /\ LET latest == LStripV(reply.tag_name)
           current == config.firmware_version
           cur == ParseVersion(current)
           lat == ParseVersion(latest)
           first == Inserted(<<"Checking for updates online...">>)
           found == Inserted(<<"[INFO] Latest release found: ">> \o latest)
       IN
       IF reply.kind = "error"
       THEN /\ response_text' =
                 Log("updater", first \o Inserted(<<"[ERROR] Failed to fetch latest release: ">>))
            /\ UNCHANGED dialog
       ELSE IF reply.kind = "no_tag"
       THEN /\ response_text' =
                 Log("updater", first \o Inserted(<<"[ERROR] Invalid release data format: ">>))
            /\ UNCHANGED dialog
       ELSE IF current = <<"Unknown">>
       THEN /\ response_text' =
                 Log("updater", first \o found
                        \o Inserted(<<"[INFO] Current version: ">> \o current)
                        \o Inserted(<<"[INFO] Could not determine current firmware version">>))
            /\ UNCHANGED dialog
       ELSE IF ~cur[1] \/ ~lat[1]
       THEN /\ response_text' =
                 Log("updater", first \o found
                        \o Inserted(<<"[ERROR] Version comparison failed: ">>))
            /\ UNCHANGED dialog
       ELSE IF version_lt(cur[2], lat[2])
       THEN /\ response_text' =
                 Log("updater", first \o found
                        \o Inserted(<<"[UPDATE AVAILABLE] ">> \o current \o <<", ">> \o latest)
                        \o IF yes THEN download_firmware_update(latest, reply2) ELSE <<>>)
            /\ dialog' = "Firmware Update Available"
       ELSE /\ response_text' =
                 Log("updater", first \o found \o Inserted(<<"[UP TO DATE] ">> \o current))
            /\ UNCHANGED dialog
    /\ UNCHANGED <<serial_port, is_connected, port_state, rx, response_queue, config, wire,
                   ui, reader, consumer, flash, nLines, nSends, returned>>
    /\ UNCHANGED <<host, idf_path, firmware_path, pack>>

(***************************************************************************)
(* The firmware file: browse_firmware_file and download_latest_firmware    *)
(* (interaction thread).                                                   *)
(***************************************************************************)
\* downloads the user starts in one run
MaxDownloads == 2

\* name.endswith('.bin') on the asset names of the model
EndsWithBin(name) == name \in {"fw.bin", "fw2.bin"}

\* [asset for asset in assets if asset['name'].endswith('.bin')]
RECURSIVE BinAssets(_)
BinAssets(assets) ==
    IF assets = <<>> THEN <<>>
    ELSE (IF EndsWithBin(Head(assets)) THEN <<Head(assets)>> ELSE <<>>) \o BinAssets(Tail(assets))

\* the last firmware binary of the release
firmware_asset_last(assets) == BinAssets(assets)[Len(BinAssets(assets))]

\* firmware_assets[0]
firmware_asset(assets) == BinAssets(assets)[1]

\* tempfile.mkdtemp(prefix="esp32_firmware_"): the n-th directory made
TempDir(n) == "esp32_firmware_" \o ToString(n)

\* downloads started so far
Downloads ==
    Cardinality({i \in 1..Len(response_text["ui"]) :
                    response_text["ui"][i].text = <<"[INFO] Downloading latest firmware...">>})

\* browse_firmware_file: the user picks a file (nothing changes when the
\* dialog is cancelled)
UIBrowseFirmware(file) ==
    /\ ui.pc = "idle"
    /\ firmware_path # <<file>>
    /\ firmware_path' = <<file>>
    /\ response_text' = Log("ui", Inserted(<<"[INFO] Firmware file selected: ", file>>))
    /\ UNCHANGED <<serial_port, is_connected, port_state, rx, response_queue, config, wire,
                   dialog, ui, reader, consumer, flash, nLines, nSends, returned>>
    /\ UNCHANGED <<host, idf_path, updater, pack>>

\* download_latest_firmware up to the download request: the registry is
\* asked for the latest release and the first .bin asset is chosen.  ui.assets
\* keeps the asset list of the answer.
UIDownloadRequest(reply) ==
    /\ ui.pc = "idle"
    /\ Downloads < MaxDownloads
    /\ LET first == Inserted(<<"[INFO] Downloading latest firmware...">>) IN
       IF reply.kind = "error"
       THEN /\ response_text' =
                 Log("ui", first \o Inserted(<<"[ERROR] Failed to download firmware: ">>))
            /\ UNCHANGED ui
       ELSE IF BinAssets(reply.assets) = <<>>
       THEN /\ response_text' =
                 Log("ui", first
                        \o Inserted(<<"[ERROR] No firmware binary found in latest release">>))
            /\ ui' = [ui EXCEPT !.assets = reply.assets]
       ELSE /\ response_text' =
                 Log("ui", first
                        \o Inserted(<<"[INFO] Downloading ", firmware_asset(reply.assets)>>))
            /\ ui' = [ui EXCEPT !.pc = "download", !.assets = reply.assets]
    /\ UNCHANGED <<serial_port, is_connected, port_state, rx, response_queue, config, wire,
                   dialog, reader, consumer, flash, nLines, nSends, returned>>
    /\ UNCHANGED tools

\* download_latest_firmware from the download request on: the request fails
\* (~fetched), or the file is written into a new temporary directory and
\* becomes the selected firmware, or writing it fails (~written)
UIDownloadSave(fetched, written) ==
    /\ ui.pc = "download"
    /\ ui' = [ui EXCEPT !.pc = "idle"]
    /\ IF ~fetched
       THEN /\ response_text' = Log("ui", Inserted(<<"[ERROR] Failed to download firmware: ">>))
            /\ UNCHANGED <<host, firmware_path>>
       ELSE /\ host' = [host EXCEPT !.tmpdirs = @ + 1]
            /\ IF written
               THEN /\ firmware_path' = <<TempDir(host.tmpdirs + 1), "/", firmware_asset(ui.assets)>>
                    /\ response_text' =
                         Log("ui", Inserted(<<"[SUCCESS] Firmware downloaded to: ">>
                                             \o firmware_path'))
               ELSE /\ response_text' =
                         Log("ui", Inserted(<<"[ERROR] Failed to download firmware: ">>))
                    /\ UNCHANGED firmware_path
    /\ UNCHANGED <<serial_port, is_connected, port_state, rx, response_queue, config, wire,
                   dialog, reader, consumer, flash, nLines, nSends, returned>>
    /\ UNCHANGED <<idf_path, updater, pack>>

(***************************************************************************)
(* flash_firmware (interaction thread) and flash_firmware_worker (its own  *)
(* thread).                                                                *)
(***************************************************************************)
\* self.idf_path_var: empty, the two esptool markers, an ESP-IDF directory with
\* export.sh and esptool.py, one with export.sh only, a directory without export.sh
IdfChoices == {"", "esptool", "pip_esptool", "idf", "idf_no_esptool", "not_idf"}

Started == {j \in FlashIds : flash[j].pc # "unstarted"}

\* flash_firmware: one of its checks fails, or the user declines; nothing starts
UIFlashRejected(firmware_ok, idf, port_ok, confirm) ==
    /\ ui.pc = "idle"
    /\ ~firmware_ok \/ idf \in {"", "not_idf"} \/ ~port_ok \/ ~confirm
    /\ dialog' = IF ~firmware_ok THEN "Invalid Firmware"
                 ELSE IF idf = "" THEN "No ESP-IDF/esptool"
                 ELSE IF idf = "not_idf" THEN "Invalid ESP-IDF Path"
                 ELSE IF ~port_ok THEN "No Port Selected"
                 ELSE ""
    /\ UNCHANGED <<serial_port, is_connected, port_state, rx, response_queue, config,
                   response_text, wire, ui, reader, consumer, flash, nLines, nSends, returned>>
    /\ UNCHANGED tools

\* flash_firmware: all checks pass and the user confirms; the worker thread starts
UIFlashStart(idf) ==
    /\ ui.pc = "idle"
    /\ idf \in {"esptool", "pip_esptool", "idf", "idf_no_esptool"}
    /\ Cardinality(Started) < MaxFlashJobs
    /\ flash' = [flash EXCEPT ![Cardinality(Started) + 1].pc = "w_begin",
                              ![Cardinality(Started) + 1].idf = idf]
    /\ dialog' = ""
    /\ UNCHANGED <<serial_port, is_connected, port_state, rx, response_queue, config,
                   response_text, wire, ui, reader, consumer, nLines, nSends, returned>>
    /\ UNCHANGED tools

\* a worker that looks for esptool.py before it disconnects
FlashBeginCheckFirst(j) ==
    /\ flash[j].pc = "w_begin"
    /\ response_text' = Log(FlashThread(j),
             Inserted(<<"[INFO] Starting firmware flash...">>)
          \o Inserted(<<"[INFO] Port: ", "port">>)
          \o Inserted(<<"[INFO] Firmware: ", "firmware.bin">>)
          \o (IF flash[j].idf = "idf_no_esptool"
              THEN Inserted(<<"[ERROR] esptool.py not found in ESP-IDF installation">>)
              ELSE IF is_connected
              THEN Inserted(<<"[INFO] Disconnecting from serial port for flashing...">>)
              ELSE <<>>))
    /\ flash' = [flash EXCEPT ![j].pc = IF flash[j].idf = "idf_no_esptool" THEN "done"
                                        ELSE IF is_connected THEN "d_close" ELSE "w_cmd"]
    /\ UNCHANGED <<serial_port, is_connected, port_state, rx, response_queue, config,
                   wire, dialog, ui, reader, consumer, nLines, nSends, returned>>
    /\ UNCHANGED tools

\* flash_firmware_worker: the three [INFO] lines, then: if self.is_connected:
\* the "Disconnecting" line and the call of self.disconnect()
FlashBegin(j) ==
    /\ flash[j].pc = "w_begin"
    /\ response_text' = Log(FlashThread(j),
             Inserted(<<"[INFO] Starting firmware flash...">>)
          \o Inserted(<<"[INFO] Port: ", "port">>)
          \o Inserted(<<"[INFO] Firmware: ", "firmware.bin">>)
          \o (IF is_connected
              THEN Inserted(<<"[INFO] Disconnecting from serial port for flashing...">>)
              ELSE <<>>))
    /\ flash' = [flash EXCEPT ![j].pc = IF is_connected THEN "d_close" ELSE "w_cmd"]
    /\ UNCHANGED <<serial_port, is_connected, port_state, rx, response_queue, config,
                   wire, dialog, ui, reader, consumer, nLines, nSends, returned>>
    /\ UNCHANGED tools

\* the worker's disconnect(), up to the close
FlashDisconnectClose(j) ==
    /\ flash[j].pc = "d_close"
    /\ ClosePort
    /\ flash' = [flash EXCEPT ![j] = [DiscClose(flash[j]) EXCEPT !.alone = TRUE]]
    /\ UNCHANGED <<serial_port, is_connected, response_queue, config, response_text, wire,
                   dialog, ui, reader, consumer, nLines, nSends, returned>>
    /\ UNCHANGED tools

\* the worker's disconnect(): finally: self.serial_port = None
FlashDisconnectNone(j) ==
    /\ flash[j].pc = "d_none"
    /\ serial_port' = 0
    /\ flash' = [flash EXCEPT ![j].pc = "d_flag"]
    /\ UNCHANGED <<is_connected, port_state, rx, response_queue, config, response_text, wire,
                   dialog, ui, reader, consumer, nLines, nSends, returned>>
    /\ UNCHANGED tools

\* the worker's disconnect(): self.is_connected = False, the button and status
\* label, the log entry; the call returns
FlashDisconnectFlag(j) ==
    /\ flash[j].pc = "d_flag"
    /\ is_connected' = disconnect_flag(is_connected)
    /\ response_text' = Log(FlashThread(j), Logged(<<"Disconnected from ESP32">>))
    /\ returned' = returned \cup ({flash[j].h} \ {0})
    /\ flash' = [flash EXCEPT ![j].pc = "w_settle"]
    /\ UNCHANGED <<serial_port, port_state, rx, response_queue, config, wire, dialog,
                   ui, reader, consumer, nLines, nSends>>
    /\ UNCHANGED tools

\* time.sleep(2) after the disconnect
FlashSettle(j) ==
    /\ flash[j].pc = "w_settle"
    /\ flash' = [flash EXCEPT ![j].pc = "w_cmd", ![j].h = 0, ![j].alone = TRUE, ![j].fromDisc = FALSE]
    /\ UNCHANGED <<serial_port, is_connected, port_state, rx, response_queue, config,
                   response_text, wire, dialog, ui, reader, consumer, nLines, nSends, returned>>
    /\ UNCHANGED tools

\* the command line is built; with an ESP-IDF directory that holds esptool.py at
\* neither place the worker logs the error and returns
FlashCommand(j) ==
    /\ flash[j].pc = "w_cmd"
    /\ IF flash[j].idf = "idf_no_esptool"
       THEN /\ response_text' = Log(FlashThread(j),
                     Inserted(<<"[ERROR] esptool.py not found in ESP-IDF installation">>))
            /\ flash' = [flash EXCEPT ![j].pc = "done"]
       ELSE /\ response_text' = Log(FlashThread(j),
                     Inserted(<<"[INFO] Flash offset: ", "0x10000", " (64KB)">>)
                  \o Inserted(<<"[INFO] Running: ", flash[j].idf>>))
            /\ flash' = [flash EXCEPT ![j].pc = "w_popen"]
    /\ UNCHANGED <<serial_port, is_connected, port_state, rx, response_queue, config,
                   wire, dialog, ui, reader, consumer, nLines, nSends, returned>>
    /\ UNCHANGED tools

\* subprocess.Popen(cmd, stdout=PIPE, stderr=STDOUT, ...) starts esptool
FlashPopen(j) ==
    /\ flash[j].pc = "w_popen"
    /\ flash' = [flash EXCEPT ![j].pc = "w_stream", ![j].proc = "running"]
    /\ UNCHANGED <<serial_port, is_connected, port_state, rx, response_queue, config,
                   response_text, wire, dialog, ui, reader, consumer, nLines, nSends, returned>>
    /\ UNCHANGED tools

\* the text of the n-th output line of esptool, as readline() returns it
EsptoolLine(n) == <<" ", ToString(n), "\n">>

\* esptool writes its next output line into the pipe
EsptoolWrite(j) ==
    /\ flash[j].proc = "running"
    /\ flash[j].out < MaxFlashLines
    /\ flash' = [flash EXCEPT ![j].pipe = Append(@, EsptoolLine(flash[j].out + 1)),
                              ![j].out = @ + 1]
    /\ UNCHANGED <<serial_port, is_connected, port_state, rx, response_queue, config,
                   response_text, wire, dialog, ui, reader, consumer, nLines, nSends, returned>>
    /\ UNCHANGED tools

\* esptool ends with return code rc; its end of the pipe closes
EsptoolExit(j, rc) ==
    /\ flash[j].proc = "running"
    /\ flash' = [flash EXCEPT ![j].proc = "exited", ![j].rc = rc]
    /\ UNCHANGED <<serial_port, is_connected, port_state, rx, response_queue, config,
                   response_text, wire, dialog, ui, reader, consumer, nLines, nSends, returned>>
    /\ UNCHANGED tools

\* subprocess.Popen raises (the executable is missing): the outer except branch
FlashPopenError(j) ==
    /\ flash[j].pc = "w_popen"
    /\ response_text' = Log(FlashThread(j), Inserted(<<"[ERROR] Flashing error: ", "exception">>))
    /\ dialog' = "Flash Error"
    /\ flash' = [flash EXCEPT ![j].pc = "done"]
    /\ UNCHANGED <<serial_port, is_connected, port_state, rx, response_queue, config,
                   wire, ui, reader, consumer, nLines, nSends, returned>>
    /\ UNCHANGED tools

\* one pass of: for line in iter(process.stdout.readline, ''): the insert of
\* f"[FLASH] {line.strip()}\n"
FlashStream(j) ==
    /\ flash[j].pc = "w_stream"
    /\ flash[j].pipe # <<>>
    /\ response_text' = Log(FlashThread(j), Inserted(<<"[FLASH] ">> \o Strip(Head(flash[j].pipe))))
    /\ flash' = [flash EXCEPT ![j].pipe = Tail(@)]
    /\ UNCHANGED <<serial_port, is_connected, port_state, rx, response_queue, config,
                   wire, dialog, ui, reader, consumer, nLines, nSends, returned>>
    /\ UNCHANGED tools

\* a worker that leaves the loop as soon as esptool has ended, with lines
\* still in the pipe
FlashExitEarly(j) ==
    /\ flash[j].pc = "w_stream"
    /\ flash[j].proc = "exited"
    /\ IF flash[j].rc = 0
       THEN /\ response_text' = Log(FlashThread(j),
                     Inserted(<<"[SUCCESS] Firmware flashed successfully!">>)
                  \o Inserted(<<"[INFO] ESP32 is resetting...">>))
            /\ flash' = [flash EXCEPT ![j].pc = "w_count", ![j].count = 5]
            /\ UNCHANGED dialog
       ELSE /\ response_text' = Log(FlashThread(j),
                     Inserted(<<"[ERROR] Flashing failed with return code ", ToString(flash[j].rc)>>))
            /\ dialog' = "Flash Failed"
            /\ flash' = [flash EXCEPT ![j].pc = "done"]
    /\ UNCHANGED <<serial_port, is_connected, port_state, rx, response_queue, config,
                   wire, ui, reader, consumer, nLines, nSends, returned>>
    /\ UNCHANGED tools

\* a worker that does not look at the return code
FlashExitAnyCode(j) ==
    /\ flash[j].pc = "w_stream"
    /\ flash[j].pipe = <<>>
    /\ flash[j].proc = "exited"
    /\ response_text' = Log(FlashThread(j),
             Inserted(<<"[SUCCESS] Firmware flashed successfully!">>)
          \o Inserted(<<"[INFO] ESP32 is resetting...">>))
    /\ flash' = [flash EXCEPT ![j].pc = "w_count", ![j].count = 5]
    /\ UNCHANGED <<serial_port, is_connected, port_state, rx, response_queue, config, dialog,
                   wire, ui, reader, consumer, nLines, nSends, returned>>
    /\ UNCHANGED tools

\* readline() returns '' (the pipe is empty and closed), process.wait(), and
\* the branch on process.returncode
FlashExit(j) ==
    /\ flash[j].pc = "w_stream"
    /\ flash[j].pipe = <<>>
    /\ flash[j].proc = "exited"
    /\ IF flash[j].rc = 0
       THEN /\ response_text' = Log(FlashThread(j),
                     Inserted(<<"[SUCCESS] Firmware flashed successfully!">>)
                  \o Inserted(<<"[INFO] ESP32 is resetting...">>))
            /\ flash' = [flash EXCEPT ![j].pc = "w_count", ![j].count = 5]
            /\ UNCHANGED dialog
       ELSE /\ response_text' = Log(FlashThread(j),
                     Inserted(<<"[ERROR] Flashing failed with return code ", ToString(flash[j].rc)>>))
            /\ dialog' = "Flash Failed"
            /\ flash' = [flash EXCEPT ![j].pc = "done"]
    /\ UNCHANGED <<serial_port, is_connected, port_state, rx, response_queue, config,
                   wire, ui, reader, consumer, nLines, nSends, returned>>
    /\ UNCHANGED tools

\* one pass of: for i in range(5, 0, -1): the countdown line, time.sleep(1)
FlashCountdown(j) ==
    /\ flash[j].pc = "w_count"
    /\ flash[j].count > 0
    /\ response_text' = Log(FlashThread(j),
             Inserted(<<"[INFO] Waiting for ESP32 reset... ", ToString(flash[j].count), " seconds">>))
    /\ flash' = [flash EXCEPT ![j].count = @ - 1]
    /\ UNCHANGED <<serial_port, is_connected, port_state, rx, response_queue, config,
                   wire, dialog, ui, reader, consumer, nLines, nSends, returned>>
    /\ UNCHANGED tools

\* a worker that marks the session connected again after the countdown
FlashCompleteReconnect(j) ==
    /\ flash[j].pc = "w_count"
    /\ flash[j].count = 0
    /\ response_text' = Log(FlashThread(j),
             Inserted(<<"[INFO] Ready to reconnect - click 'Connect' when ready">>))
    /\ dialog' = "Flash Complete"
    /\ is_connected' = TRUE
    /\ flash' = [flash EXCEPT ![j].pc = "done"]
    /\ UNCHANGED <<serial_port, port_state, rx, response_queue, config,
                   wire, ui, reader, consumer, nLines, nSends, returned>>
    /\ UNCHANGED tools

\* a worker that completes one countdown line early
FlashCompleteEarly(j) ==
    /\ flash[j].pc = "w_count"
    /\ flash[j].count <= 1
    /\ response_text' = Log(FlashThread(j),
             Inserted(<<"[INFO] Ready to reconnect - click 'Connect' when ready">>))
    /\ dialog' = "Flash Complete"
    /\ flash' = [flash EXCEPT ![j].pc = "done"]
    /\ UNCHANGED <<serial_port, is_connected, port_state, rx, response_queue, config,
                   wire, ui, reader, consumer, nLines, nSends, returned>>
    /\ UNCHANGED tools

\* after the countdown: the "Ready to reconnect" line and the success dialog
FlashComplete(j) ==
    /\ flash[j].pc = "w_count"
    /\ flash[j].count = 0
    /\ response_text' = Log(FlashThread(j),
             Inserted(<<"[INFO] Ready to reconnect - click 'Connect' when ready">>))
    /\ dialog' = "Flash Complete"
    /\ flash' = [flash EXCEPT ![j].pc = "done"]
    /\ UNCHANGED <<serial_port, is_connected, port_state, rx, response_queue, config,
                   wire, ui, reader, consumer, nLines, nSends, returned>>
    /\ UNCHANGED tools

(***************************************************************************)
(* Specifications.                                                         *)
(***************************************************************************)
IntInputs == {0, 1, 255, 256}

\* the bounds of a PID setter and the values one hundredth beyond them
FloatInputs(name) ==
    CASE name = "set_pid_kp" -> {-1, 0, 1000, 1001}
      [] name = "set_pid_ki" -> {-1, 0, 200, 201}
      [] name = "set_pid_kd" -> {-1, 0, 100, 101}
      [] name = "set_pid_output_max" -> {999, 1000, 10000, 10001}

\* the user connects and disconnects (toggle_connection)
UserSession ==
    \/ UIConnectOpen
    \/ UIConnectFlag
    \/ UIConnectStart
    \/ UIDisconnectClose
    \/ UIDisconnectNone
    \/ UIDisconnectFlag

\* the reader threads without the device sending anything
ReaderThreads ==
    \/ \E r \in Handles : ReaderTest(r)
    \/ \E r \in Handles : ReaderError(r)
    \/ \E r \in Handles : ReaderIdle(r)

\* the device sends lines; reader and consumer deliver them
Delivery ==
    \/ \E text \in DeviceLines : DeviceEmit(text)
    \/ \E r \in Handles : ReaderRead(r)
    \/ \E r \in Handles : ReaderPut(r)
    \/ ConsumerGet
    \/ ConsumerProcess

Sending ==
    \/ UISendOk
    \/ UISendError

\* every command handler with every input
Commands ==
    \/ \E name \in SimpleCommands :
          \E yes \in (IF name = "calibrate_throttle" THEN BOOLEAN ELSE {TRUE}) : UICommand(name, yes)
    \/ \E name \in IntSetters : \E v \in IntInputs : UISetInt(name, v)
    \/ \E name \in FloatSetters : \E v \in FloatInputs(name) : UISetFloat(name, v)
    \/ \E name \in IntSetters \cup FloatSetters : UISetUnreadable(name)

\* the flash worker threads and their esptool subprocesses
FlashWorkers ==
    \/ \E j \in FlashIds : FlashBegin(j)
    \/ \E j \in FlashIds : FlashDisconnectClose(j)
    \/ \E j \in FlashIds : FlashDisconnectNone(j)
    \/ \E j \in FlashIds : FlashDisconnectFlag(j)
    \/ \E j \in FlashIds : FlashSettle(j)
    \/ \E j \in FlashIds : FlashCommand(j)
    \/ \E j \in FlashIds : FlashPopen(j)
    \/ \E j \in FlashIds : FlashPopenError(j)
    \/ \E j \in FlashIds : EsptoolWrite(j)
    \/ \E j \in FlashIds : \E rc \in {0, 1} : EsptoolExit(j, rc)
    \/ \E j \in FlashIds : FlashStream(j)
    \/ \E j \in FlashIds : FlashExit(j)
    \/ \E j \in FlashIds : FlashCountdown(j)
    \/ \E j \in FlashIds : FlashComplete(j)

\* pack_firmware.py, main, up to the zip: the build directory, the three
\* files, the version, and with --github the repository (--repo, else the git
\* remote) and the token (--token, else the environment); each failure
\* returns 1.
PackMain(run) ==
    /\ pack.pc = "unstarted"
    /\ pack' = IF \/ ~run.build
                  \/ source_files \ run.files # {}
                  \/ ~run.version
                  \/ run.github /\ run.repo = <<>> /\ ~run.remote
                  \/ run.github /\ ~(run.token_arg \/ run.token_env)
               THEN [pack EXCEPT !.pc = "exit", !.run = run, !.code = 1]
               ELSE [pack EXCEPT !.pc = "zip", !.run = run]
    /\ UNCHANGED <<serial_port, is_connected, port_state, rx, response_queue, config,
                   response_text, wire, dialog, ui, reader, consumer, flash, nLines, nSends,
                   returned, host, idf_path, firmware_path, updater>>

\* main, the zip: zipfile.ZipFile(zip_path, 'w') and the three writes.  An
\* exception returns 1 and may leave an incomplete file.  Without --github the
\* run returns 0; with it the repository must have two parts, or the run
\* returns 1 before create_github_release is called.
PackZip(written) ==
    /\ pack.pc = "zip"
    /\ LET github_repo == IF pack.run.repo # <<>> THEN pack.run.repo ELSE <<"owner", "repo">>
       IN  IF ~written
           THEN \E left \in {"none", "partial"} :
                   pack' = [pack EXCEPT !.pc = "exit", !.zip = left, !.code = 1]
           ELSE IF ~pack.run.github
           THEN pack' = [pack EXCEPT !.pc = "exit", !.zip = "written", !.code = 0]
           ELSE IF Len(github_repo) # 2
           THEN pack' = [pack EXCEPT !.pc = "exit", !.zip = "written", !.code = 1]
           ELSE pack' = [pack EXCEPT !.pc = "release", !.zip = "written"]
    /\ UNCHANGED <<serial_port, is_connected, port_state, rx, response_queue, config,
                   response_text, wire, dialog, ui, reader, consumer, flash, nLines, nSends,
                   returned, host, idf_path, firmware_path, updater>>

\* create_github_release, the release: without the requests library it returns
\* False and main returns 1; else it posts the release, and a refusal
\* (raise_for_status) returns False.  The token is present here, main checked it.
PackRelease(created) ==
    /\ pack.pc = "release"
    /\ IF ~pack.run.library
       THEN pack' = [pack EXCEPT !.pc = "exit", !.code = 1]
       ELSE pack' = [pack EXCEPT !.pc = IF created THEN "upload" ELSE "exit",
                                 !.requests = Append(@, [kind |-> "release", ok |-> created]),
                                 !.code = IF created THEN @ ELSE 1]
    /\ UNCHANGED <<serial_port, is_connected, port_state, rx, response_queue, config,
                   response_text, wire, dialog, ui, reader, consumer, flash, nLines, nSends,
                   returned, host, idf_path, firmware_path, updater>>

PackUploadUnchecked(uploaded) ==
    /\ pack.pc = "upload"
    /\ pack' = [pack EXCEPT !.pc = "exit",
                            !.requests = Append(@, [kind |-> "upload", ok |-> uploaded]),
                            !.code = 0]
    /\ UNCHANGED <<serial_port, is_connected, port_state, rx, response_queue, config,
                   response_text, wire, dialog, ui, reader, consumer, flash, nLines, nSends,
                   returned, host, idf_path, firmware_path, updater>>

\* create_github_release, the asset: it posts the zip to the release's upload
\* URL; True, and exit code 0, when that succeeds, else False and 1.
PackUpload(uploaded) ==
    /\ pack.pc = "upload"
    /\ pack' = [pack EXCEPT !.pc = "exit",
                            !.requests = Append(@, [kind |-> "upload", ok |-> uploaded]),
                            !.code = IF uploaded THEN 0 ELSE 1]
    /\ UNCHANGED <<serial_port, is_connected, port_state, rx, response_queue, config,
                   response_text, wire, dialog, ui, reader, consumer, flash, nLines, nSends,
                   returned, host, idf_path, firmware_path, updater>>

\* the whole program
Next ==
    \/ UserSession
    \/ UIConnectFail
    \/ \E h \in Handles : PortFail(h)
    \/ ReaderThreads
    \/ Delivery
    \/ Commands
    \/ Sending
    \/ \E fw, pt, cf \in BOOLEAN : \E idf \in IdfChoices : UIFlashRejected(fw, idf, pt, cf)
    \/ \E idf \in IdfChoices : UIFlashStart(idf)
    \/ FlashWorkers

Spec == Init /\ [][Next]_vars

\* Scenario: sessions and inbound lines.  The user connects and disconnects,
\* the transport may break, the device sends lines.
NextReader ==
    \/ UserSession
    \/ \E h \in Handles : PortFail(h)
    \/ ReaderThreads
    \/ Delivery

SpecReader == Init /\ [][NextReader]_vars

\* Scenario: command dispatch.  The user connects, disconnects and triggers
\* every command handler with every input; the transport may break.
NextDispatch ==
    \/ UserSession
    \/ UIConnectFail
    \/ \E h \in Handles : PortFail(h)
    \/ Commands
    \/ Sending

SpecDispatch == Init /\ [][NextDispatch]_vars

\* no flash worker is running
NoJobRunning == \A j \in FlashIds : flash[j].pc \in {"unstarted", "done"}

\* Scenario: flashing while the user connects and disconnects; the user starts
\* a flash job when none is running.
NextFlash ==
    \/ UserSession
    \/ \E idf \in IdfChoices : UIFlashStart(idf) /\ NoJobRunning
    \/ FlashWorkers

SpecFlash == Init /\ [][NextFlash]_vars

\* Scenario: flashing (one job at a time) while the user connects, disconnects
\* and sends get_config.
NextFlashSend ==
    \/ UserSession
    \/ UICommand("get_config", TRUE)
    \/ Sending
    \/ \E idf \in IdfChoices : UIFlashStart(idf) /\ NoJobRunning
    \/ FlashWorkers

SpecFlashSend == Init /\ [][NextFlashSend]_vars

\* Scenario: flash jobs whose ESP-IDF directory holds no esptool.py (the worker
\* disconnects, then ends) while the user connects and disconnects.
NextDisconnect ==
    \/ UserSession
    \/ UIFlashStart("idf_no_esptool")
    \/ \E j \in FlashIds : FlashBegin(j)
    \/ \E j \in FlashIds : FlashDisconnectClose(j)
    \/ \E j \in FlashIds : FlashDisconnectNone(j)
    \/ \E j \in FlashIds : FlashDisconnectFlag(j)
    \/ \E j \in FlashIds : FlashSettle(j)
    \/ \E j \in FlashIds : FlashCommand(j)

SpecDisconnect == Init /\ [][NextDisconnect]_vars

\* what the user has entered when the flash button is pressed: firmware file
\* present, ESP-IDF path, port selected, answer to the confirmation; each
\* check failing alone, and all passing
FlashRequests ==
    {<<FALSE, "idf", TRUE, TRUE>>, <<TRUE, "", TRUE, TRUE>>, <<TRUE, "not_idf", TRUE, TRUE>>,
     <<TRUE, "idf", FALSE, TRUE>>, <<TRUE, "idf", TRUE, FALSE>>}

\* Scenario: flash requests.  The user connects, disconnects and presses the
\* flash button with inputs that fail a check and with inputs that pass (one
\* job at a time).
NextFlashRequest ==
    \/ UserSession
    \/ \E q \in FlashRequests : UIFlashRejected(q[1], q[2], q[3], q[4])
    \/ \E idf \in IdfChoices : UIFlashStart(idf) /\ NoJobRunning
    \/ FlashWorkers

SpecFlashRequest == Init /\ [][NextFlashRequest]_vars

\* Scenario: the user presses the flash button again and again, also while a
\* job runs, and connects and disconnects.
NextFlashTwice ==
    \/ UserSession
    \/ \E idf \in {"idf", "idf_no_esptool"} : UIFlashStart(idf)
    \/ FlashWorkers

SpecFlashTwice == Init /\ [][NextFlashTwice]_vars

\* Scenario: flash jobs on their own.  The session is never connected; the
\* user starts jobs, also while one runs, and each runs to its end.
NextFlashRun ==
    \/ UIFlashStart("esptool")
    \/ \E j \in FlashIds : FlashBegin(j)
    \/ \E j \in FlashIds : FlashCommand(j)
    \/ \E j \in FlashIds : FlashPopen(j)
    \/ \E j \in FlashIds : FlashPopenError(j)
    \/ \E j \in FlashIds : EsptoolWrite(j)
    \/ \E j \in FlashIds : \E rc \in {0, 1} : EsptoolExit(j, rc)
    \/ \E j \in FlashIds : FlashStream(j)
    \/ \E j \in FlashIds : FlashExit(j)
    \/ \E j \in FlashIds : FlashCountdown(j)
    \/ \E j \in FlashIds : FlashComplete(j)

SpecFlashRun == Init /\ [][NextFlashRun]_vars

\* Scenario: the user connects and disconnects, the transport may break, the
\* reader threads run, and the user flashes (one job at a time).
NextSession ==
    \/ UserSession
    \/ ReaderThreads
    \/ \E h \in Handles : PortFail(h)
    \/ \E idf \in {"idf", "idf_no_esptool"} : UIFlashStart(idf) /\ NoJobRunning
    \/ FlashWorkers

SpecSession == Init /\ [][NextSession]_vars

\* the parameters the device confirms with "<Param> set to: <value>"
IntFields == {"motor_pulley", "wheel_pulley", "wheel_diameter_mm", "motor_poles"}
PidFields == {"pid_kp", "pid_ki", "pid_kd", "pid_output_max"}
SetToFields == IntFields \cup PidFields

\* the text before "set to:" that parse_config_response looks for
SetToLabel(field) ==
    CASE field = "motor_pulley" -> "Motor pulley teeth"
      [] field = "wheel_pulley" -> "Wheel pulley teeth"
      [] field = "wheel_diameter_mm" -> "Wheel diameter"
      [] field = "motor_poles" -> "Motor poles"
      [] field = "pid_kp" -> "PID Kp"
      [] field = "pid_ki" -> "PID Ki"
      [] field = "pid_kd" -> "PID Kd"
      [] field = "pid_output_max" -> "PID Output Max"

\* a confirmation line: the label, "set to:", the payload
SetToLine(field, payload) == <<SetToLabel(field), " ", "set to", ":", " ">> \o payload

\* well-formed values (PID values in hundredths) and their text
SetToValues(field) == IF field \in IntFields THEN {14, 110} ELSE {125, 1000}
SetToText(field, v) == IF field \in IntFields THEN FmtInt(v) ELSE FmtFloat(v)

\* nothing, or a unit, after the value
UnitSuffixes == {<<>>, <<"mm">>}

\* one session in which the device sends the lines of a set and the reader
\* and the consumer deliver them
Receive(lines) ==
    \/ UIConnectOpen
    \/ UIConnectFlag
    \/ UIConnectStart
    \/ \E text \in lines : DeviceEmit(text)
    \/ \E r \in Handles : ReaderTest(r)
    \/ \E r \in Handles : ReaderIdle(r)
    \/ \E r \in Handles : ReaderRead(r)
    \/ \E r \in Handles : ReaderPut(r)
    \/ ConsumerGet
    \/ ConsumerProcess

\* the confirmation lines the device sends: each parameter, each value, with
\* and without a unit after the value
SetToLines ==
    UNION {{SetToLine(f, <<SetToText(f, v)>> \o u) : v \in SetToValues(f), u \in UnitSuffixes} :
              f \in SetToFields}

\* Scenario: the device confirms parameters in one session.
NextSetTo == Receive(SetToLines)

SpecSetTo == Init /\ [][NextSetTo]_vars

\* a line of the configuration dump: key, colon, payload
DumpLine(key, payload) == <<key, ":", " ">> \o payload

\* payloads that int() and float() reject
BadPayloads == {<<"abc">>, <<>>}

\* lines whose payload is malformed for the rule they match: a confirmation
\* of each parameter, and the dump lines of the four integer parameters
MalformedLines ==
    {SetToLine(f, p) : f \in SetToFields, p \in BadPayloads}
    \cup {DumpLine("Motor Pulley Teeth", <<"abc">>), DumpLine("Wheel Pulley Teeth", <<"abc">>),
          DumpLine("Wheel Diameter", <<"abc", " ", "mm">>), DumpLine("Motor Poles", <<"abc">>)}

\* well-formed lines, each with the field it targets and the value it carries
GoodLines ==
    {[text |-> SetToLine("motor_pulley", <<"14">>), field |-> "motor_pulley", value |-> 14],
     [text |-> SetToLine("pid_kp", <<"1.25">>), field |-> "pid_kp", value |-> 125],
     [text |-> DumpLine("Wheel Diameter", <<"110", " ", "mm">>),
      field |-> "wheel_diameter_mm", value |-> 110]}

\* Scenario: the device sends malformed and well-formed lines in one session.
NextMalformed == Receive(MalformedLines \cup {g.text : g \in GoodLines})

SpecMalformed == Init /\ [][NextMalformed]_vars

\* the values of the PID blocks the device sends: Kp, Ki, Kd, Output Max, in
\* hundredths
PidBlocks == {<<125, 200, 0, 10000>>, <<1000, 5, 50, 1000>>}

\* the PID parameter block: the header line and the four "key: value" lines
PidBlockLines(b) ==
    << <<"=== Level Assistant PID Parameters ===">>,
       <<"Kp (Proportional)", ":", " ", FmtFloat(b[1])>>,
       <<"Ki (Integral)", ":", " ", FmtFloat(b[2])>>,
       <<"Kd (Derivative)", ":", " ", FmtFloat(b[3])>>,
       <<"Output Max", ":", " ", FmtFloat(b[4])>> >>

\* Scenario: the device answers get_pid_params.  In one session it sends the
\* PID parameter block; the reader and the consumer deliver it.
NextPidBlock ==
    \/ UIConnectOpen
    \/ UIConnectFlag
    \/ UIConnectStart
    \/ \E b \in PidBlocks : DeviceEmitBlock(PidBlockLines(b))
    \/ \E r \in Handles : ReaderTest(r)
    \/ \E r \in Handles : ReaderIdle(r)
    \/ \E r \in Handles : ReaderRead(r)
    \/ \E r \in Handles : ReaderPut(r)
    \/ ConsumerGet
    \/ ConsumerProcess

SpecPidBlock == Init /\ [][NextPidBlock]_vars

\* the configurations the device dumps: the value of each mirror field
ConfigDumps ==
    {[firmware_version |-> <<"1.2.0">>, invert_throttle |-> TRUE, level_assistant |-> TRUE,
      speed_unit_mph |-> TRUE, motor_pulley |-> 14, wheel_pulley |-> 110,
      wheel_diameter_mm |-> 110, motor_poles |-> 1, ble_connected |-> TRUE],
     [firmware_version |-> <<"1.3.0">>, invert_throttle |-> FALSE, level_assistant |-> FALSE,
      speed_unit_mph |-> FALSE, motor_pulley |-> 255, wheel_pulley |-> 33,
      wheel_diameter_mm |-> 255, motor_poles |-> 14, ble_connected |-> FALSE]}

YesNo(b) == IF b THEN "Yes" ELSE "No"

\* the configuration dump: the header line and one "key: value" line for each
\* field, with the keys and value words parse_config_display knows
ConfigDumpLines(d) ==
    << <<"===", " ", "Current", " ", "Configuration", " ", "===">>,
       DumpLine("Firmware Version", d.firmware_version),
       DumpLine("Throttle Inverted", <<YesNo(d.invert_throttle)>>),
       DumpLine("Level Assistant", <<YesNo(d.level_assistant)>>),
       DumpLine("Speed Unit", <<IF d.speed_unit_mph THEN "mi/h" ELSE "km/h">>),
       DumpLine("Motor Pulley Teeth", <<FmtInt(d.motor_pulley)>>),
       DumpLine("Wheel Pulley Teeth", <<FmtInt(d.wheel_pulley)>>),
       DumpLine("Wheel Diameter", <<FmtInt(d.wheel_diameter_mm), " ", "mm">>),
       DumpLine("Motor Poles", <<FmtInt(d.motor_poles)>>),
       DumpLine("BLE Connected", <<YesNo(d.ble_connected)>>) >>

\* Scenario: the device answers get_config.  In one session it sends the
\* configuration dump; the reader and the consumer deliver it.
NextConfigDump ==
    \/ UIConnectOpen
    \/ UIConnectFlag
    \/ UIConnectStart
    \/ \E d \in ConfigDumps : DeviceEmitBlock(ConfigDumpLines(d))
    \/ \E r \in Handles : ReaderTest(r)
    \/ \E r \in Handles : ReaderIdle(r)
    \/ \E r \in Handles : ReaderRead(r)
    \/ \E r \in Handles : ReaderPut(r)
    \/ ConsumerGet
    \/ ConsumerProcess

SpecConfigDump == Init /\ [][NextConfigDump]_vars

\* the key of the motor poles line in four letter cases
MotorPolesKeys == {"Motor Poles", "Motor poles", "motor poles", "MOTOR POLES"}

MotorPolesValues == {1, 255}

\* Scenario: the device sends the motor poles line of the dump with its key
\* in each letter case.
NextKeyCase == Receive({DumpLine(k, <<FmtInt(v)>>) : k \in MotorPolesKeys, v \in MotorPolesValues})

SpecKeyCase == Init /\ [][NextKeyCase]_vars

\* longest line of escape symbols the device sends
MaxAnsiLen == 4

\* lines made of the escape character, "[" and "M": ESC M and ESC [ M are
\* ANSI sequences
AnsiInputs == UNION {[1..n -> {"ESC", "[", "M"}] : n \in 1..MaxAnsiLen}

\* Scenario: the device sends lines that hold escape sequences.
NextAnsi == Receive(AnsiInputs)

SpecAnsi == Init /\ [][NextAnsi]_vars

\* lines for the filter of clean_response: plain, coloured, the prompt, a
\* blank one, internal log lines, and lines that hold a denylisted string
\* after other text
CleanInputs ==
    {<<"Ready">>,
     <<"ESC", "[", "0", "m", "Ready", " ">>,
     <<">">>,
     <<"ESC", "[", "0", "m", " ", ">", " ">>,
     <<"ESC", "[", "0", "m">>,
     <<"I", " ", "(", "123", ")", " ", "main">>,
     <<"ESC", "[", "0", "m", "I", " ", "(", "123", ")", " ", "main">>,
     <<"USB_SERIAL", ":", " ", "Unknown command", ":", " ", "foo">>,
     <<"Note", ":", " ", "I", " ", "(", "think", ")">>,
     <<"Echo", " ", "USB_SERIAL", ":", " ", "Unknown command", ":", " ", "foo">>}

\* Scenario: the device sends lines the filter keeps and lines it discards.
NextClean == Receive(CleanInputs)

SpecClean == Init /\ [][NextClean]_vars

\* the firmware version lines the device sends
FirmwareLines ==
    {<<"Firmware version", ":", " ", v>> : v \in {"1.2.0", "1.3.0-rc1", "1.3.0", "1.10.0"}}

\* the registry's answers to the update check: a failure, an answer without
\* tag, the releases v1.3.0 and 1.9.0
UpdateReplies ==
    {r \in RegistryReplies :
        r.kind = "release" => /\ r.tag_name \in {<<"v", "1.3.0">>, <<"1.9.0">>}
                              /\ r.assets = <<"fw.elf", "fw.bin", "fw2.bin">>}

\* Scenario: the update check.  In one session the user asks for the firmware
\* version, the device may answer, and the update-check thread asks the
\* registry for the latest release.
NextUpdate ==
    \/ Receive(FirmwareLines)
    \/ UICommand("get_firmware_version", TRUE)
    \/ Sending
    \/ \E reply \in UpdateReplies, yes \in BOOLEAN :
          \E reply2 \in {r \in UpdateReplies : r.kind = "error" \/ r = reply} :
             UpdateCheck(reply, yes, reply2)

SpecUpdate == Init /\ [][NextUpdate]_vars

\* no line of the device is on its way to the mirror
Quiet == rx = <<>> /\ response_queue = <<>> /\ consumer.pc = "get"

\* Scenario: the firmware version of the mirror.  The user connects once,
\* disconnects, asks for the firmware version and flashes (with an ESP-IDF
\* directory that holds no esptool.py); the update check runs; the device
\* sends a confirmation line and a firmware version line.  The user acts
\* while no line is on its way and flashes once; the device sends while no
\* flash job and no update check runs.
NextVersion ==
    \/ UIConnectOpen /\ Opened = {}
    \/ UIConnectFlag
    \/ UIConnectStart
    \/ UIDisconnectClose
    \/ UIDisconnectNone
    \/ UIDisconnectFlag
    \/ UICommand("get_firmware_version", TRUE) /\ Quiet /\ NoJobRunning
    \/ Sending
    \/ \E reply \in UpdateReplies : UpdateCheck(reply, FALSE, reply) /\ NoJobRunning
    \/ \E text \in {L_kp, <<"Firmware version", ":", " ", "1.2.0">>} :
          DeviceEmit(text) /\ NoJobRunning /\ ui.pc = "idle" /\ updater = 0
    \/ ReaderThreads
    \/ \E r \in Handles : ReaderRead(r)
    \/ \E r \in Handles : ReaderPut(r)
    \/ ConsumerGet
    \/ ConsumerProcess
    \/ UIFlashStart("idf_no_esptool") /\ Started = {} /\ Quiet /\ updater = 0
    \/ \E j \in FlashIds : FlashBegin(j)
    \/ \E j \in FlashIds : FlashDisconnectClose(j)
    \/ \E j \in FlashIds : FlashDisconnectNone(j)
    \/ \E j \in FlashIds : FlashDisconnectFlag(j)
    \/ \E j \in FlashIds : FlashSettle(j)
    \/ \E j \in FlashIds : FlashCommand(j)

SpecVersion == Init /\ [][NextVersion]_vars

\* Scenario: construction on every machine.  The flash tab is built and the
\* ESP-IDF path detected.
NextDetect == DetectIdf

SpecDetect == InitDetect /\ [][NextDetect]_vars

\* the registry's answers to the download: a failure, and the latest release
\* with each list of assets
DownloadReplies ==
    {r \in RegistryReplies : r.kind = "error" \/ (r.kind = "release" /\ r.tag_name = <<"1.9.0">>)}

\* Scenario: the firmware file.  The user picks a file once, before any
\* download, and downloads the latest firmware.
NextDownload ==
    \/ \E file \in {"old.bin", "other.bin"} : UIBrowseFirmware(file) /\ firmware_path = <<>>
    \/ \E reply \in DownloadReplies : UIDownloadRequest(reply)
    \/ \E fetched, written \in BOOLEAN : UIDownloadSave(fetched, written)

SpecDownload == Init /\ [][NextDownload]_vars

\* the status lines the device sends
StatusFields == {"invert_throttle", "level_assistant"}
StatusLabel(field) ==
    IF field = "invert_throttle" THEN "Throttle inversion" ELSE "Level assistant"
StatusLine(field, on) ==
    <<StatusLabel(field), ":", " ", IF on THEN "ENABLED" ELSE "DISABLED">>
StatusLines == {StatusLine(f, on) : f \in StatusFields, on \in BOOLEAN}

\* Scenario: the device reports the state of its switches in one session.
NextStatus == Receive(StatusLines)

SpecStatus == Init /\ [][NextStatus]_vars

\* lines of the device that no rule of log_message or parse_config_response
\* matches, one of them coloured, and two lines that a rule matches
PlainLines ==
    {<<"Ready">>, <<"Battery", ":", " ", "80%">>, <<"ESC", "[", "M", "Ready", "ESC", "[", "M">>}
RuleLines == {L_kp, <<"Unknown command", ":", " ", "foo">>}

\* Scenario: the device sends plain and classified lines in one session.
NextPlain == Receive(PlainLines \cup RuleLines)

SpecPlain == Init /\ [][NextPlain]_vars

\* Scenario: the device sends a confirmation, a malformed confirmation and a
\* plain line in one session, and the log widget may fail.
NextLogError ==
    \/ Receive({L_kp, L_ready, SetToLine("motor_pulley", <<"abc">>)})
    \/ \E inserted \in BOOLEAN : ConsumerRaise(inserted)

SpecLogError == Init /\ [][NextLogError]_vars

\* Scenario: the device sends plain, classified and blank lines in one
\* session, and the log widget may fail.  The threads are scheduled fairly:
\* the reader's put and the consumer's get are taken when they stay
\* possible, and the consumer does not stay inside process_response for ever
\* (process_response is possible exactly while consumer.pc = "process", so
\* this is weak fairness of the processing step).
NextDelivery ==
    \/ Receive({L_kp, L_ready, L_blank})
    \/ \E inserted \in BOOLEAN : ConsumerRaise(inserted)

SpecDelivery ==
    /\ Init /\ [][NextDelivery]_vars
    /\ WF_vars(\E r \in Handles : ReaderPut(r))
    /\ WF_vars(ConsumerGet)
    /\ []<>(consumer.pc # "process")

\* the registry's answers to the request for the latest release: a failure,
\* an answer without tag, and the tags v1.3.0, 1.10.0 and vv1.9.0
FetchTags == {<<"v", "1.3.0">>, <<"1.10.0">>, <<"v", "v", "1.9.0">>}
FetchReplies ==
    {r \in RegistryReplies :
        r.kind = "release" => r.tag_name \in FetchTags /\ r.assets = <<"fw.elf", "fw.bin", "fw2.bin">>}

\* Scenario: the latest release.  In one session the device reports version
\* 1.3.0, the user asks for the firmware version and the update-check thread
\* asks the registry; the user declines the update.
NextFetch ==
    \/ Receive({<<"Firmware version", ":", " ", "1.3.0">>})
    \/ UICommand("get_firmware_version", TRUE)
    \/ Sending
    \/ \E reply \in FetchReplies : UpdateCheck(reply, FALSE, reply)

SpecFetch == Init /\ [][NextFetch]_vars

\* Scenario: the SDK directory without esptool.py.  The user connects and
\* disconnects while no job runs, flash requests are rejected by the input
\* checks, and confirmed requests with such a directory start jobs.
NextNoScript ==
    \/ UserSession /\ NoJobRunning
    \/ ReaderThreads
    \/ \E q \in FlashRequests : UIFlashRejected(q[1], q[2], q[3], q[4])
    \/ UIFlashStart("idf_no_esptool") /\ NoJobRunning
    \/ \E j \in FlashIds : FlashBegin(j)
    \/ \E j \in FlashIds : FlashDisconnectClose(j)
    \/ \E j \in FlashIds : FlashDisconnectNone(j)
    \/ \E j \in FlashIds : FlashDisconnectFlag(j)
    \/ \E j \in FlashIds : FlashSettle(j)
    \/ \E j \in FlashIds : FlashCommand(j)

SpecNoScript == Init /\ [][NextNoScript]_vars

(***************************************************************************)
(* Properties.                                                             *)
(***************************************************************************)

\* C1: the lines read from the transport during one session are logged by the
\* response processor in the order in which they were read: of two log entries
\* of one session the earlier one belongs to the line read earlier.
C1_LoggedInReadOrder ==
    LET log == response_text["consumer"] IN
    \A i, k \in 1..Len(log) :
        (i < k /\ log[i].sess = log[k].sess) => log[i].id < log[k].id

\* the values a setter may transmit: 1..255 for the integer
\* setters, the closed ranges of the PID setters in hundredths
C2_Allowed(name) ==
    CASE name \in IntSetters -> 1..255
      [] name = "set_pid_kp" -> 0..1000
      [] name = "set_pid_ki" -> 0..200
      [] name = "set_pid_kd" -> 0..100
      [] name = "set_pid_output_max" -> 1000..10000

C2_Fmt(name, v) == IF name \in IntSetters THEN FmtInt(v) ELSE FmtFloat(v)

\* the values the user enters into the field of a setter
C2_Inputs(name) == IF name \in IntSetters THEN IntInputs ELSE FloatInputs(name)

\* C2: whatever a numeric setter writes to the transport is the setter's name
\* with a value inside its range (1..255; 0..10, 0..2, 0..1, 10..100), and a
\* setter called while connected with a value outside the range shows
\* "Invalid Value", writes nothing, queues nothing for writing and leaves the
\* config mirror as it was.
C2_SettersInRange ==
    [][ /\ \A name \in IntSetters \cup FloatSetters :
            (wire' # wire /\ wire'[Len(wire')][1] = name) =>
                \E v \in C2_Inputs(name) \cap C2_Allowed(name) :
                    wire' = Append(wire, <<name, " ", C2_Fmt(name, v), "\n">>)
        /\ \A name \in IntSetters : \A v \in IntInputs \ C2_Allowed(name) :
            (is_connected /\ UISetInt(name, v)) =>
                (dialog' = "Invalid Value" /\ wire' = wire /\ ui' = ui /\ config' = config)
        /\ \A name \in FloatSetters : \A v \in FloatInputs(name) \ C2_Allowed(name) :
            (is_connected /\ UISetFloat(name, v)) =>
                (dialog' = "Invalid Value" /\ wire' = wire /\ ui' = ui /\ config' = config)
      ]_vars

\* both bounds of an integer setter have been sent after 0 or 256 was rejected
C2_Witness ==
    /\ dialog = "Invalid Value"
    /\ \E i \in 1..Len(wire) : wire[i] \in {<<"set_motor_pulley", " ", "255", "\n">>,
                                            <<"set_pid_output_max", " ", "100.0", "\n">>,
                                            <<"set_wheel_size", " ", "1", "\n">>,
                                            <<"set_pid_kp", " ", "0.0", "\n">>}

\* C3: a command is written to the transport only while the session is
\* connected with an open handle, what is written is the command followed by
\* one newline, and a send that completes while the session is not connected
\* shows an error, writes nothing and logs no "Sent:" entry.
C3_SendOnlyWhenConnected ==
    [][ /\ wire' # wire =>
            (is_connected /\ Writable /\ wire' = Append(wire, ui.cmd \o <<"\n">>))
        /\ (ui.pc = "send" /\ ui'.pc = "idle" /\ ~is_connected) =>
            (dialog' = "Send Error" /\ wire' = wire /\ response_text' = response_text)
      ]_vars

\* C4: every step that changes a field of the config mirror is the response
\* processor finishing the handling of an inbound line.
C4_SingleWriter ==
    [][ config' # config => (consumer.pc = "process" /\ consumer'.pc = "get") ]_vars

\* a step of some thread inside disconnect()
C5_DisconnectStep ==
    \/ ui.pc = "idle" /\ ui'.pc \in {"d_none", "d_flag"}
    \/ ui.pc \in {"d_none", "d_flag"} /\ ui'.pc # ui.pc
    \/ \E j \in FlashIds : flash[j].pc \in {"d_close", "d_none", "d_flag"} /\ flash'[j].pc # flash[j].pc

\* C5: every step of disconnect() taken while the session is disconnected and
\* holds no handle leaves the connected flag, the handle, the ports, the
\* config mirror and the dialogs as they were; and when disconnect() returns
\* the session is disconnected and, unless a connect() began during the call,
\* holds no handle.
C5_DisconnectIdempotent ==
    [][ /\ (C5_DisconnectStep /\ serial_port = 0 /\ ~is_connected) =>
            (serial_port' = 0 /\ ~is_connected' /\ port_state' = port_state
             /\ config' = config /\ dialog' = dialog)
        /\ (ui.pc = "d_flag" /\ ui'.pc = "idle") => (~is_connected' /\ serial_port' = 0)
        /\ \A j \in FlashIds :
            (flash[j].pc = "d_flag" /\ flash'[j].pc = "w_settle") =>
                (~is_connected' /\ (flash[j].alone => serial_port' = 0))
      ]_vars

\* a worker's disconnect() that began in the disconnected session has returned
C5_Witness ==
    \E j \in FlashIds :
        /\ flash[j].pc = "w_settle"
        /\ flash[j].fromDisc
        /\ flash[j].alone
        /\ serial_port = 0
        /\ ~is_connected

\* C6: once disconnect() has returned for a session, the reader enqueues no
\* line of that session and the response processor handles none.
C6_NoDeliveryAfterDisconnect ==
    [][ /\ Len(response_queue') > Len(response_queue) =>
            response_queue'[Len(response_queue')].sess \notin returned
        /\ (consumer.pc = "process" /\ consumer'.pc = "get") =>
            consumer.cur.sess \notin returned
      ]_vars

\* C7: when a reader has left its loop on a transport error and no
\* disconnect() of its session is running or has run, the session is
\* disconnected and holds no handle; and a connected session at rest has a
\* live reader.
C7_ReaderErrorDisconnects ==
    /\ \A r \in Handles :
        (reader[r].pc = "error" /\ ui.pc = "idle" /\ r \notin returned) =>
            (~is_connected /\ serial_port = 0)
    /\ (is_connected /\ ui.pc = "idle") => \E r \in Handles : Live(r)

\* C8: after the disconnect() of its session has returned, a reader passes
\* the test of its loop at most once more and reads no line.
C8_ReaderStopsAfterDisconnect ==
    \A r \in Handles : reader[r].late <= 1 /\ ~reader[r].lateRead

\* C9: at most one reader thread is live.
C9_AtMostOneReader ==
    Cardinality({r \in Handles : Live(r)}) <= 1

\* C10: the connected flag goes from false to true only in connect(), which
\* the user's toggle_connection runs.
C10_ConnectedOnlyByConnect ==
    [][ (~is_connected /\ is_connected') => (ui.pc = "c_flag" /\ ui'.pc = "c_start") ]_vars

\* a disconnect has returned, a reader has stopped on an error, a flash job
\* has ended, and the session is disconnected
C10_Witness ==
    /\ ~is_connected
    /\ ui.pc = "idle"
    /\ returned # {}
    /\ \E r \in Handles : reader[r].pc = "error"
    /\ \E j \in FlashIds : flash[j].pc = "done" /\ flash[j].proc = "exited" /\ flash[j].rc = 0

\* C11: a step that puts up the "Connection Error" dialog (serial.Serial
\* raised in connect()) starts and ends with the connected flag false, and
\* leaves the handle, the ports, the reader threads, the config mirror and
\* the log as they were.
C11_ConnectFailureLeavesDisconnected ==
    [][ (dialog' = "Connection Error" /\ dialog # "Connection Error") =>
            (/\ ~is_connected /\ ~is_connected'
             /\ serial_port' = serial_port
             /\ port_state' = port_state
             /\ reader' = reader
             /\ config' = config
             /\ response_text' = response_text
             /\ ui'.pc = "idle")
      ]_vars

\* after an earlier session a connect() has failed
C11_Witness ==
    /\ dialog = "Connection Error"
    /\ ~is_connected
    /\ ui.pc = "idle"
    /\ \E h \in Handles : port_state[h] = "closed"

\* the dialogs of the checks of flash_firmware
C12_Reasons == {"Invalid Firmware", "No ESP-IDF/esptool", "Invalid ESP-IDF Path", "No Port Selected"}

\* the ESP-IDF path settings from which a flashing command can be built
C12_Resolvable == {"esptool", "pip_esptool", "idf"}

C13_FlashOnlyWhenDisconnected ==
    [][ \A j \in FlashIds :
            (flash[j].pc = "w_popen" /\ flash'[j].pc = "w_stream") =>
                (~is_connected /\ serial_port = 0 /\ \A h \in Handles : port_state[h] # "open")
      ]_vars

\* the first symbols of the entries that flash job j has inserted, in a log
C14_Heads(log, j) == {log[FlashThread(j)][i].text[1] : i \in 1..Len(log[FlashThread(j)])}

C14_Success ==
    {"[SUCCESS] Firmware flashed successfully!", "[INFO] ESP32 is resetting...",
     "[INFO] Waiting for ESP32 reset... ", "[INFO] Ready to reconnect - click 'Connect' when ready"}

\* C14: a flash job ends with the "Flash Complete" dialog and the "Ready to
\* reconnect" entry exactly when its subprocess was started and returned 0.
\* When the subprocess returned another code the job ends with the "Flash
\* Failed" dialog and an entry holding the code; when it was never started
\* the job ends with an [ERROR] entry; in both cases the job has inserted no
\* success, reset or countdown entry.
C14_CompleteIffExitZero ==
    [][ \A j \in FlashIds :
          /\ (flash[j].pc # "done" /\ flash'[j].pc = "done") =>
               IF flash'[j].proc = "exited" /\ flash'[j].rc = 0
               THEN /\ dialog' = "Flash Complete"
                    /\ "[INFO] Ready to reconnect - click 'Connect' when ready" \in C14_Heads(response_text', j)
               ELSE /\ C14_Heads(response_text', j) \cap C14_Success = {}
                    /\ flash'[j].proc # "running"
                    /\ flash'[j].proc = "exited" =>
                         /\ dialog' = "Flash Failed"
                         /\ \E i \in 1..Len(response_text'[FlashThread(j)]) :
                              response_text'[FlashThread(j)][i].text =
                                <<"[ERROR] Flashing failed with return code ", ToString(flash'[j].rc)>>
                    /\ flash'[j].proc = "none" =>
                         C14_Heads(response_text', j) \cap
                            {"[ERROR] Flashing error: ", "[ERROR] esptool.py not found in ESP-IDF installation"} # {}
          /\ (C14_Heads(response_text', j) \cap C14_Success # {}) =>
               (flash'[j].proc = "exited" /\ flash'[j].rc = 0)
      ]_vars

\* one job has ended after return code 0, another after return code 1
C14_Witness ==
    \E j, k \in FlashIds :
        /\ flash[j].pc = "done" /\ flash[j].proc = "exited" /\ flash[j].rc = 0
        /\ flash[k].pc = "done" /\ flash[k].proc = "exited" /\ flash[k].rc = 1
        /\ dialog = "Flash Failed"

\* the entries of flash job j that forward an output line
C15_Forwarded(j) ==
    SelectSeq(response_text[FlashThread(j)], LAMBDA e : e.text[1] = "[FLASH] ")

\* the entries a job inserts once the return code has been looked at
C15_Outcome ==
    C14_Success \cup {"[ERROR] Flashing failed with return code "}

\* C15: the [FLASH] entries of a job are the output lines of its subprocess
\* that have left the pipe, each once and in the order written; once the
\* worker has looked at the return code every line written has its entry,
\* and no [FLASH] entry follows a success, failure or countdown entry.
C15_OutputForwardedInOrder ==
    \A j \in FlashIds :
        LET log == response_text[FlashThread(j)]
            fl == C15_Forwarded(j)
        IN  /\ Len(fl) + Len(flash[j].pipe) = flash[j].out
            /\ \A i \in 1..Len(fl) : fl[i].text = <<"[FLASH] ", ToString(i)>>
            /\ \A i \in 1..Len(log) :
                 log[i].text[1] \in C15_Outcome =>
                    /\ Len(fl) = flash[j].out
                    /\ flash[j].proc = "exited"
                    /\ \A k \in i..Len(log) : log[k].text[1] # "[FLASH] "

\* a job has ended after esptool wrote all its lines, all forwarded
C15_Witness ==
    \E j \in FlashIds :
        /\ flash[j].pc = "done"
        /\ flash[j].out = MaxFlashLines
        /\ Len(C15_Forwarded(j)) = MaxFlashLines
        /\ flash[j].proc = "exited"

\* C16: at most one flash job is between its start and its end, and at most
\* one flashing subprocess is running.
C16_OneFlashJobAtATime ==
    /\ Cardinality({j \in FlashIds : flash[j].pc \notin {"unstarted", "done"}}) <= 1
    /\ Cardinality({j \in FlashIds : flash[j].proc = "running"}) <= 1

\* C17: every step that changes the connected flag or the serial handle, or
\* closes a port, is a step of the interaction thread.
C17_SessionChangedByOwnerOnly ==
    [][ (\/ is_connected' # is_connected
         \/ serial_port' # serial_port
         \/ \E h \in Handles : port_state[h] # "closed" /\ port_state'[h] = "closed")
        => ui'.pc # ui.pc
      ]_vars

\* C18: when the response processor has processed a line "<Param> set to:
\* <value>" with a well-formed numeric value, with or without a unit suffix
\* such as "mm" after it, the mirror field of the parameter holds the value,
\* every other mirror field is unchanged, and the log has a new entry: the
\* line with the confirmation prefix "[OK] "; for each of the eight parameters.
C18_SetToUpdatesField ==
    [][\A f \in SetToFields : \A v \in SetToValues(f) : \A u \in UnitSuffixes :
          (/\ consumer.pc = "process"
           /\ consumer'.pc = "get"
           /\ consumer.cur.text = SetToLine(f, <<SetToText(f, v)>> \o u))
          => /\ config' = [config EXCEPT ![f] = v]
             /\ response_text'["consumer"] =
                  Append(response_text["consumer"],
                         Entry(<<"[OK] ">> \o consumer.cur.text, consumer.cur))]_vars

\* C19: when the response processor processes a line whose payload is
\* malformed for its rule (a "<Param> set to:" line or a "key: value" dump
\* line with a non-numeric or empty payload), every mirror field keeps its
\* value and the processor goes on to the next line; a well-formed line is
\* applied whatever was processed before it.
C19_MalformedIgnored ==
    [][(consumer.pc = "process" /\ consumer'.pc = "get")
       => /\ Strip(consumer.cur.text) \in {Strip(m) : m \in MalformedLines}
               => config' = config /\ consumer' = [pc |-> "get", cur |-> NoLine]
          /\ \A g \in GoodLines :
               consumer.cur.text = g.text => config' = [config EXCEPT ![g.field] = g.value]]_vars

\* a malformed motor pulley confirmation was processed and left the mirror
\* alone, then the well-formed one was applied
C19_Witness ==
    LET log == response_text["consumer"] IN
    /\ Len(log) = 2
    /\ log[1].text = <<"[OK] ">> \o SetToLine("motor_pulley", <<"abc">>)
    /\ log[2].text = <<"[OK] ">> \o SetToLine("motor_pulley", <<"14">>)
    /\ config = [InitConfig EXCEPT !.motor_pulley = 14]
    /\ consumer.pc = "get"

\* C20: once the PID parameter block (the header line, then the Kp, Ki, Kd
\* and Output Max lines) has come through the reader, one line at a time, and
\* the response processor has processed all of it, the mirror's pid_kp,
\* pid_ki, pid_kd and pid_output_max are the values of the block.
C20_PidBlockApplied ==
    \A b \in PidBlocks :
        (/\ consumer.pc = "get"
         /\ [i \in 1..Len(response_text["consumer"]) |-> response_text["consumer"][i].text]
               = PidBlockLines(b))
        => /\ config.pid_kp = b[1]
           /\ config.pid_ki = b[2]
           /\ config.pid_kd = b[3]
           /\ config.pid_output_max = b[4]

\* C21: once a configuration dump has come through the reader, one line at a
\* time, and the response processor has processed all of it, every mirror
\* field named by a "key: value" line of the dump (firmware version, throttle
\* inverted, level assistant, speed unit, motor pulley teeth, wheel pulley
\* teeth, wheel diameter without its unit, motor poles, BLE connected) holds
\* the dumped value.
C21_DumpApplied ==
    \A d \in ConfigDumps :
        (/\ consumer.pc = "get"
         /\ [i \in 1..Len(response_text["consumer"]) |-> response_text["consumer"][i].text]
               = ConfigDumpLines(d))
        => \A f \in DOMAIN d : config[f] = d[f]

\* C22: the key of a "key: value" line is matched whatever its letter case:
\* when the response processor has processed "Motor Poles: v", "Motor poles:
\* v", "motor poles: v" or "MOTOR POLES: v", the mirror's motor_poles is v and
\* no other field has changed, the same update for every spelling.
C22_KeyCaseInsensitive ==
    [][\A k \in MotorPolesKeys : \A v \in MotorPolesValues :
          (/\ consumer.pc = "process"
           /\ consumer'.pc = "get"
           /\ consumer.cur.text = DumpLine(k, <<FmtInt(v)>>))
          => config' = [config EXCEPT !.motor_poles = v]]_vars

\* the entries a step of the response processor adds to the log
C23_NewEntries == SubSeq(response_text["consumer"]', Len(response_text["consumer"]) + 1,
                         Len(response_text["consumer"]'))

\* a line that changes the mirror is logged with a category prefix
C23_AppliedIsPrefixed ==
    config' # config
    => Len(C23_NewEntries) = 1 /\ Head(C23_NewEntries[1].text) \in CategoryPrefixes

\* a line logged as a confirmation is a well-formed one and the field it
\* names holds its value
C23_ConfirmedIsApplied ==
    (Len(C23_NewEntries) = 1 /\ Head(C23_NewEntries[1].text) = "[OK] ")
    => \E g \in GoodLines : consumer.cur.text = g.text /\ config'[g.field] = g.value

\* C23: one rule set drives the mirror and the log.  When the response
\* processor processes a line that changes the mirror, the log entry of the
\* line begins with a category prefix (the line is not logged plain); and when
\* the log entry of a line is a confirmation ("[OK] "), the line is a
\* well-formed one and the mirror field it names holds its value.
C23_LogAgreesWithUpdate ==
    [][(consumer.pc = "process" /\ consumer'.pc = "get")
       => C23_AppliedIsPrefixed /\ C23_ConfirmedIsApplied]_vars

\* C24: clean removes every ANSI sequence and is idempotent: whenever the
\* response processor cleans a line x and clean(x) is not none, clean(x)
\* holds no ANSI escape sequence and clean(clean(x)) = clean(x).
C24_CleanIdempotent ==
    [][(consumer.pc = "process" /\ consumer'.pc = "get")
       => LET cleaned == clean_response(consumer.cur.text) IN
          cleaned # None => ~HasAnsi(cleaned) /\ clean_response(cleaned) = cleaned]_vars

\* C25: clean discards a line exactly when, after ANSI stripping and
\* trimming, it is empty, is only the prompt marker ">", or begins with a
\* denylisted internal log prefix; any other line is returned ANSI-stripped
\* and trimmed, also when a denylisted string occurs inside it.
C25_DiscardsExactlyDenylisted ==
    [][(consumer.pc = "process" /\ consumer'.pc = "get")
       => LET line == Strip(StripAnsi(consumer.cur.text))
              discard == \/ line = <<>>
                         \/ line = <<">">>
                         \/ \E p \in SkipPatterns : StartsWith(p, line)
          IN clean_response(consumer.cur.text) = (IF discard THEN None ELSE line)]_vars

\* the entries a step of the update check adds to the log
C26_NewEntries == SubSeq(response_text["updater"]', Len(response_text["updater"]) + 1,
                         Len(response_text["updater"]'))

\* the first symbols of these entries
C26_Heads == {Head(C26_NewEntries[i].text) : i \in 1..Len(C26_NewEntries)}

\* pairs (current, latest) of which current is the older by semantic-version
\* ordering
C26_Older ==
    {<<"1.2.0", "1.3.0">>, <<"1.2.0", "1.9.0">>, <<"1.2.0", "1.10.0">>,
     <<"1.3.0-rc1", "1.3.0">>, <<"1.3.0-rc1", "1.9.0">>, <<"1.3.0-rc1", "1.10.0">>,
     <<"1.3.0", "1.9.0">>, <<"1.3.0", "1.10.0">>, <<"1.9.0", "1.10.0">>}

\* C26: when the update check has the latest release and the mirror's
\* firmware version is a version, it reports update-available (and offers the
\* download) exactly when the current version is strictly older than the
\* latest by semantic-version ordering, and up-to-date without an offer
\* otherwise; when the mirror's firmware version is "Unknown" it reports that
\* the version could not be determined, compares nothing and offers nothing.
C26_UpdateIffOlder ==
    [][(updater' = updater - 1 /\ "[INFO] Latest release found: " \in C26_Heads)
       => LET current == config.firmware_version[1]
              latest == C26_NewEntries[2].text[2]
          IN
          IF current = "Unknown"
          THEN /\ C26_Heads \cap {"[UPDATE AVAILABLE] ", "[UP TO DATE] ",
                                  "[ERROR] Version comparison failed: "} = {}
               /\ "[INFO] Could not determine current firmware version" \in C26_Heads
               /\ dialog' = dialog
          ELSE IF <<current, latest>> \in C26_Older
          THEN /\ "[UPDATE AVAILABLE] " \in C26_Heads
               /\ "[UP TO DATE] " \notin C26_Heads
               /\ dialog' = "Firmware Update Available"
          ELSE /\ "[UP TO DATE] " \in C26_Heads
               /\ "[UPDATE AVAILABLE] " \notin C26_Heads
               /\ dialog' = dialog]_vars

\* the update check has reported an update for the current version 1.3.0 and
\* the latest release 1.9.0 and has offered the download
C26_Witness ==
    \E i \in 1..Len(response_text["updater"]) :
        /\ response_text["updater"][i].text = <<"[UPDATE AVAILABLE] ", "1.3.0", ", ", "1.9.0">>
        /\ dialog = "Firmware Update Available"

\* C27: as long as the response processor has processed no firmware version
\* line, the mirror's firmware_version is "Unknown": connecting,
\* disconnecting, sending a command (get_firmware_version too), the update
\* check and flashing do not change it.
C27_UnknownUntilReported ==
    (\A i \in 1..Len(response_text["consumer"]) :
        ~Contains(<<"Firmware version", ":">>, response_text["consumer"][i].text))
    => config.firmware_version = <<"Unknown">>

\* the user has connected and disconnected, get_firmware_version went out,
\* the update check has run, a flash job has ended, the device's confirmation
\* line was processed, and no firmware version line was: still "Unknown"
C27_Witness ==
    /\ returned # {}
    /\ <<"get_firmware_version", "\n">> \in {wire[i] : i \in 1..Len(wire)}
    /\ response_text["updater"] # <<>>
    /\ \E j \in FlashIds : flash[j].pc = "done"
    /\ Len(response_text["consumer"]) = 1
    /\ config.pid_kp = 125
    /\ config.firmware_version = <<"Unknown">>

\* C28: the detected flashing tool is the first that succeeds of: the
\* standalone executable on the execution path, the module of the current
\* runtime, an SDK directory; an SDK directory, from a conventional path or
\* from IDF_PATH, is returned only if it holds the marker file export.sh; when
\* none succeeds the result is empty.
C28_DetectFirstWithMarker ==
    idf_path # "<None>"
    => idf_path = (IF host.esptool_on_path THEN "esptool"
                   ELSE IF host.esptool_module THEN "pip_esptool"
                   ELSE IF host.home_sdk = "sdk" THEN "~/esp/esp-idf"
                   ELSE IF host.opt_sdk = "sdk" THEN "/opt/esp/esp-idf"
                   ELSE IF host.env_sdk = "sdk" THEN "$IDF_PATH"
                   ELSE "")

\* the entries the interaction thread adds to the log in a step
C29_NewEntries ==
    [i \in 1..(Len(response_text'["ui"]) - Len(response_text["ui"])) |->
        response_text'["ui"][Len(response_text["ui"]) + i].text]

\* the asset names that end in the binary-image extension
C29_Binary == {"fw.bin", "fw2.bin"}

\* no asset of the list qualifies
C29_NoneQualifies(assets) == \A i \in 1..Len(assets) : assets[i] \notin C29_Binary

\* name is the first asset of the list, in its order, that qualifies
C29_IsFirstBinary(assets, name) ==
    \E i \in 1..Len(assets) :
        /\ assets[i] = name
        /\ name \in C29_Binary
        /\ \A j \in 1..(i - 1) : assets[j] \notin C29_Binary

\* the step reports an error and keeps the selected firmware path
C29_Failed ==
    /\ Len(C29_NewEntries) > 0
    /\ Head(C29_NewEntries[Len(C29_NewEntries)])
         \in {"[ERROR] Failed to download firmware: ",
              "[ERROR] No firmware binary found in latest release"}
    /\ firmware_path' = firmware_path
    /\ ui'.pc = "idle"

\* the download begins: the registry fails, or no asset qualifies, and an
\* error is reported; or the first qualifying asset is announced
C29_Request ==
    (ui.pc = "idle" /\ Len(C29_NewEntries) > 0
        /\ C29_NewEntries[1] = <<"[INFO] Downloading latest firmware...">>)
    => /\ firmware_path' = firmware_path
       /\ \/ C29_Failed /\ (ui'.assets = ui.assets \/ C29_NoneQualifies(ui'.assets))
          \/ /\ ui'.pc = "download"
             /\ Len(C29_NewEntries) = 2
             /\ Head(C29_NewEntries[2]) = "[INFO] Downloading "
             /\ C29_IsFirstBinary(ui'.assets, C29_NewEntries[2][2])
       /\ (C29_NoneQualifies(ui'.assets) => C29_Failed)

\* the download ends: an error is reported, or the first qualifying asset
\* is in a directory that did not exist before and is the selected firmware
C29_Save ==
    (ui.pc = "download" /\ ui'.pc = "idle")
    => \/ C29_Failed
       \/ /\ Len(firmware_path') = 3
          /\ firmware_path'[1] = TempDir(host'.tmpdirs)
          /\ host'.tmpdirs > host.tmpdirs
          /\ C29_IsFirstBinary(ui.assets, firmware_path'[3])
          /\ C29_NewEntries = <<(<<"[SUCCESS] Firmware downloaded to: ">> \o firmware_path')>>

\* C29: the download takes the first asset, in the order the registry lists
\* them, whose name ends in .bin, writes it into a new temporary directory and
\* makes that file the selected firmware; when no asset qualifies, or the
\* registry or the download request fails, an error is logged and the selected
\* firmware path stays what it was.
C29_DownloadFirstBinary == [][C29_Request /\ C29_Save]_vars

\* a second download failed after a first one had succeeded with the second
\* asset of the list, the first .bin: the first download's file is still selected
C29_Witness ==
    /\ ui.pc = "idle"
    /\ ui.assets = <<"fw.bin.sig", "fw2.bin", "fw.bin">>
    /\ firmware_path = <<TempDir(1), "/", "fw2.bin">>
    /\ host.tmpdirs = 2
    /\ Len(response_text["ui"]) = 6
    /\ Head(response_text["ui"][6].text) = "[ERROR] Failed to download firmware: "

\* C30: when the response processor has processed a status line
\* "<Label>: ENABLED" the mirror boolean of the label (throttle inversion,
\* level assistant) is true, and after "<Label>: DISABLED" it is false,
\* whatever it was before; every other mirror field is unchanged.
C30_StatusSetsBoolean ==
    [][\A f \in StatusFields : \A on \in BOOLEAN :
          (/\ consumer.pc = "process"
           /\ consumer'.pc = "get"
           /\ consumer.cur.text = StatusLine(f, on))
          => config' = [config EXCEPT ![f] = on]]_vars

\* the level assistant was reported enabled and then disabled: the field was
\* true when the second line was processed and is false now
C30_Witness ==
    /\ Len(response_text["consumer"]) = 2
    /\ response_text["consumer"][1].text = <<"[OK] ", "Level assistant", ":", " ", "enabled">>
    /\ response_text["consumer"][2].text = <<"[OK] ", "Level assistant", ":", " ", "disabled">>
    /\ config = InitConfig

\* the plain lines after cleaning
C31_Cleaned(raw) == IF raw = <<"Battery", ":", " ", "80%">> THEN raw ELSE <<"Ready">>

\* C31: when the response processor processes a line that, cleaned, matches no
\* rule, the log gets exactly one new entry, the cleaned line as it is with
\* no category prefix, and every mirror field keeps its value.
C31_PlainPassesThrough ==
    [][\A raw \in PlainLines :
          (/\ consumer.pc = "process"
           /\ consumer'.pc = "get"
           /\ consumer.cur.text = raw)
          => /\ config' = config
             /\ response_text'["consumer"] =
                  Append(response_text["consumer"], Entry(C31_Cleaned(raw), consumer.cur))]_vars

\* a classified line was logged with its prefix and changed the mirror, then
\* a plain line was logged as "Ready" and changed nothing
C31_Witness ==
    /\ Len(response_text["consumer"]) = 2
    /\ response_text["consumer"][1].text = <<"[OK] ">> \o L_kp
    /\ response_text["consumer"][2].text = <<"Ready">>
    /\ response_text["consumer"][2].id = 2
    /\ rx = <<>> /\ nLines = 2
    /\ config = [InitConfig EXCEPT !.pid_kp = 125]

\* C34: whatever error is raised while a line is cleaned, parsed or logged,
\* the consumer thread stays in its loop: it is never ended, so that every
\* line enqueued afterwards is still processed.
C34_ConsumerSurvivesErrors == consumer.pc \in {"get", "process"}

\* where line i is: held by a reader between readline and put, in the
\* queue, held by the consumer, or logged
C32_Held(i) == {r \in Handles : reader[r].line.id = i}
C32_Queued(i) == {k \in 1..Len(response_queue) : response_queue[k].id = i}
C32_Logged(i) ==
    {k \in 1..Len(response_text["consumer"]) : response_text["consumer"][k].id = i}
C32_Copies(i) ==
    Cardinality(C32_Held(i)) + Cardinality(C32_Queued(i)) + Cardinality(C32_Logged(i))
        + (IF consumer.cur.id = i THEN 1 ELSE 0)

\* no line is delivered twice and no blank line is in the queue
C32_AtMostOnce ==
    /\ \A i \in 1..MaxLines : C32_Copies(i) <= 1
    /\ \A k \in 1..Len(response_queue) : Strip(response_queue[k].text) # <<>>

\* C32: delivery from reader to processor is lossless.  Every non-blank line
\* read from the port is put into the queue once and, the consumer being
\* scheduled fairly, is eventually processed once; a blank line is never put
\* into the queue.
C32_LosslessDelivery ==
    /\ []C32_AtMostOnce
    /\ \A i \in 1..MaxLines : (C32_Held(i) # {}) ~> (C32_Queued(i) # {} \/ consumer.cur.id = i
                                                       \/ C32_Logged(i) # {})
    /\ \A i \in 1..MaxLines : (C32_Queued(i) # {}) ~> (C32_Logged(i) # {})

\* C33: the reader is never blocked by the processor.  Whenever a reader
\* holds a line to enqueue, however many lines wait in the queue and wherever
\* the consumer is, the put is possible, and it takes the reader on to its
\* next loop test.
C33_ReaderNeverBlocked ==
    \A r \in Handles : reader[r].pc = "put" => ENABLED ReaderPut(r)

\* the reader holds the second line while the first still waits in the queue
\* for a consumer that has not taken it
C33_Witness ==
    /\ reader[1].pc = "put"
    /\ reader[1].line.id = 2
    /\ Len(response_queue) = 1
    /\ consumer.pc = "get"

\* C35: the mirror persists across reconnects.  No step of connect() or of
\* disconnect() changes a mirror field, so the values observed in one session
\* are still there after a disconnect and a new connect.
C35_MirrorKeptAcrossReconnect ==
    [][(ui' # ui \/ is_connected' # is_connected \/ serial_port' # serial_port)
       => config' = config]_vars

\* the PID gain reported in the first session is in the mirror while the
\* second session is connected
C35_Witness ==
    /\ is_connected
    /\ serial_port = 2
    /\ ui.pc = "idle"
    /\ Len(response_text["consumer"]) > 0
    /\ response_text["consumer"][1].sess = 1
    /\ config = [InitConfig EXCEPT !.pid_kp = 125]
    /\ 1 \in returned

\* the texts job j has inserted, and its countdown entries among them
C36_Texts(log, j) == [i \in 1..Len(log[FlashThread(j)]) |-> log[FlashThread(j)][i].text]
C36_Countdown(n) == <<"[INFO] Waiting for ESP32 reset... ", ToString(n), " seconds">>
C36_Count(log, j) ==
    Cardinality({i \in 1..Len(log[FlashThread(j)]) :
                    Head(C36_Texts(log, j)[i]) = "[INFO] Waiting for ESP32 reset... "})

\* job j inserts a countdown entry in this step
C36_Counts(j) == C36_Count(response_text', j) > C36_Count(response_text, j)

\* C36: after return code 0 of the subprocess the flash job inserts exactly
\* five countdown entries, 5, 4, 3, 2, 1, one per step; such a step neither
\* opens, closes, reads nor writes the port nor changes the session; the job
\* completes only after the fifth, and a job whose subprocess did not return
\* 0 inserts no countdown entry.
C36_CountdownThenComplete ==
    [][\A j \in FlashIds :
          /\ C36_Counts(j) =>
               /\ flash[j].proc = "exited" /\ flash[j].rc = 0
               /\ C36_Count(response_text, j) < 5
               /\ C36_Texts(response_text', j) =
                    Append(C36_Texts(response_text, j),
                           C36_Countdown(5 - C36_Count(response_text, j)))
               /\ flash'[j].pc # "done"
               /\ UNCHANGED <<serial_port, is_connected, port_state, rx, wire, dialog>>
          /\ (flash[j].pc # "done" /\ flash'[j].pc = "done" /\ dialog' = "Flash Complete") =>
               /\ C36_Count(response_text, j) = 5
               /\ C36_Texts(response_text, j)[Len(response_text[FlashThread(j)])] = C36_Countdown(1)
               /\ ~C36_Counts(j)
          /\ (flash[j].pc # "done" /\ flash'[j].pc = "done" /\ dialog' # "Flash Complete") =>
               C36_Count(response_text', j) = 0
      ]_vars

\* one job has completed after its five countdown entries and another has
\* failed with return code 1 and none
C36_Witness ==
    \E j, k \in FlashIds :
        /\ flash[j].pc = "done" /\ flash[j].rc = 0 /\ C36_Count(response_text, j) = 5
        /\ flash[k].pc = "done" /\ flash[k].proc = "exited" /\ flash[k].rc = 1
        /\ C36_Count(response_text, k) = 0

\* C37: the transport handle is owned by one session.  Whenever the
\* interaction thread is between two handlers, at most one handle is open and
\* a Connected session has a handle; and connect() runs only while the
\* session is not Connected.
C37_HandleOwnedBySession ==
    /\ ui.pc = "idle" =>
         /\ Cardinality({h \in Handles : port_state[h] = "open"}) <= 1
         /\ is_connected => serial_port # 0
    /\ ui.pc = "c_flag" => ~is_connected

\* the entries the update-check thread adds to the log in a step
C38_NewEntries ==
    [i \in 1..(Len(response_text'["updater"]) - Len(response_text["updater"])) |->
        response_text'["updater"][Len(response_text["updater"]) + i].text]
C38_Heads == {Head(C38_NewEntries[i]) : i \in 1..Len(C38_NewEntries)}

\* the tag without one leading prefix character
C38_StripOne(tag) == IF tag # <<>> /\ Head(tag) = "v" THEN Tail(tag) ELSE tag

\* C38: the latest version is the release tag with at most one leading "v"
\* removed: "v1.3.0" gives "1.3.0", a tag without the prefix is kept, and
\* nothing beyond the one prefix is removed; an answer without tag gives an
\* error entry and no comparison.
C38_StripsOnePrefix ==
    [][/\ \A i \in 1..Len(C38_NewEntries) :
             Head(C38_NewEntries[i]) = "[INFO] Latest release found: "
                => Tail(C38_NewEntries[i]) \in {C38_StripOne(t) : t \in FetchTags}
       /\ "[ERROR] Invalid release data format: " \in C38_Heads
             => C38_Heads = {"Checking for updates online...",
                             "[ERROR] Invalid release data format: "}]_vars

\* the dialogs of the input checks of flash_firmware
C39_Rejections ==
    {"Invalid Firmware", "No ESP-IDF/esptool", "Invalid ESP-IDF Path", "No Port Selected"}

\* job j has announced that it disconnects the open session
C39_FoundSessionOpen(j) ==
    \E i \in 1..Len(response_text[FlashThread(j)]) :
        response_text[FlashThread(j)][i].text
            = <<"[INFO] Disconnecting from serial port for flashing...">>

\* C39: a flash job whose tool is an SDK directory with esptool.py at neither
\* place ends with an [ERROR] entry and without a subprocess, and it ends
\* after its disconnect(): the session it found open is Disconnected and has
\* no handle then.  A request rejected by an input check leaves the session
\* as it was.
C39_NoScriptFailsAfterDisconnect ==
    [][/\ \A j \in FlashIds :
             (flash[j].pc # "done" /\ flash'[j].pc = "done") =>
                /\ flash'[j].proc = "none"
                /\ response_text'[FlashThread(j)][Len(response_text'[FlashThread(j)])].text
                     = <<"[ERROR] esptool.py not found in ESP-IDF installation">>
                /\ ~is_connected' /\ serial_port' = 0
                /\ C39_FoundSessionOpen(j) => flash[j].pc = "w_cmd" /\ returned # {}
       /\ (dialog' \in C39_Rejections /\ dialog' # dialog) =>
             UNCHANGED <<is_connected, serial_port, port_state, flash, response_text>>]_vars

\* a job that found the session open has ended with the error: the session
\* is Disconnected and its port closed
C39_Witness ==
    \E j \in FlashIds :
        /\ flash[j].pc = "done"
        /\ C39_FoundSessionOpen(j)
        /\ ~is_connected /\ serial_port = 0 /\ port_state[1] = "closed"
        /\ 1 \in returned

\* Scenario: one run of the packaging script, with every command line and
\* every surrounding, and every outcome of the zip and of the two requests.
NextPack ==
    \/ \E run \in PackRuns : PackMain(run)
    \/ \E written \in BOOLEAN : PackZip(written)
    \/ \E created \in BOOLEAN : PackRelease(created)
    \/ \E uploaded \in BOOLEAN : PackUpload(uploaded)

SpecPack == Init /\ [][NextPack]_vars

\* a precondition of the run fails: the build directory or one of the three
\* files is missing, the version cannot be read, or --github comes with no
\* repository (none given, none detected) or with no token
C40_PreconditionFails ==
    \/ ~pack.run.build
    \/ \E f \in source_files : f \notin pack.run.files
    \/ ~pack.run.version
    \/ pack.run.github /\ pack.run.repo = <<>> /\ ~pack.run.remote
    \/ pack.run.github /\ ~pack.run.token_arg /\ ~pack.run.token_env

C40_Succeeded(kind) ==
    \E i \in DOMAIN pack.requests : pack.requests[i].kind = kind /\ pack.requests[i].ok

\* C40: the packaging script touches the zip only when every precondition
\* holds, and makes a request only when the zip is written; a run with a
\* failed precondition exits with 1, no zip and no request; a run with --github
\* exits with 0 only when the release was created and the asset was uploaded.
C40_ZipThenRelease ==
    /\ pack.zip # "none" => ~C40_PreconditionFails
    /\ pack.requests # <<>> => pack.zip = "written"
    /\ (pack.pc = "exit" /\ C40_PreconditionFails)
       => pack.code = 1 /\ pack.zip = "none" /\ pack.requests = <<>>
    /\ (pack.pc = "exit" /\ pack.run.github /\ pack.code = 0)
       => C40_Succeeded("release") /\ C40_Succeeded("upload")

\* a run with --github has exited with 0 after both requests
C40_Witness ==
    /\ pack.pc = "exit"
    /\ pack.run.github
    /\ pack.code = 0
    /\ pack.zip = "written"
    /\ Len(pack.requests) = 2

====
